---- MODULE Spec2Model ----
(***************************************************************************)
(* A model of the POJO-actor runtime as the documentation of the Scivics   *)
(* Lab homepage describes it: the ActorRef mailbox (tell / ask / tellNow / *)
(* askNow, close) and the workflow Interpreter (execCode, runUntilEnd).    *)
(*                                                                         *)
(* Strings that the program parses (state names, state patterns, actor     *)
(* names, actor paths) are sequences of one-character strings, so that     *)
(* prefixes, suffixes and separators are computed, not assumed.            *)
(***************************************************************************)
EXTENDS Integers, Sequences, FiniteSets, TLC

(* ---------------------------------------------------------------------- *)
(* Bounds of the model                                                     *)
(* ---------------------------------------------------------------------- *)

\* number of calls the clients make on the actor's handle: tell/ask/tellNow/
\* askNow and clearPendingMessages
MaxOps == 3

\* ticks of model time that the slow operation sleeps (Thread.sleep(10000))
SleepLen == 2

\* number of steps of a workflow
MaxSteps == 3

\* the largest maxIterations handed to runUntilEnd
MaxIter == 3

\* the largest number of steps of a patch
MaxPatchLen == 3

\* the largest number of builds of one overlay
MaxBuilds == 2

\* number of calls the clients make on the ActorSystem and on its ActorRefs
MaxSysCalls == 3

(* ---------------------------------------------------------------------- *)
(* The wrapped POJO: the Counter of the documentation                      *)
(* ---------------------------------------------------------------------- *)

\* Counter.value of a new Counter
InitialValue == 0

\* the value written by c.setValue(10)
TenValue == 10

\* the value written by the slow operation's c.setValue(100)
HundredValue == 100

\* the name under which the actor is registered: system.actorOf("counter", ...)
ActorName == "counter"

\* operations handed to tell(): Consumer<Counter>
TellOps == {"setValue10", "increment", "throwing", "slowSetValue100"}

\* the actions of the scheduled tasks, named by their task ids
TaskOps == {"health-check", "memory-cleanup", "init"}

\* the scheduled task whose action throws
RiskyTask == "risky-task"

AllTasks == TaskOps \cup {RiskyTask}

\* operations handed to ask(): Function<Counter, R>
AskOps == {"getValue"}

\* operations handed to tellNow()
TellNowOps == {"increment"}

\* operations handed to askNow()
AskNowOps == {"getValue"}

\* what running an operation's body against the Counter does: the new value,
\* whether the body returned or threw, and the value an ask returns
Effect(op, v) ==
    CASE op = "setValue10"      -> [value |-> TenValue, status |-> "done", result |-> 0, writes |-> TRUE]
      [] op = "increment"       -> [value |-> v + 1, status |-> "done", result |-> 0, writes |-> TRUE]
      [] op = "getValue"        -> [value |-> v, status |-> "done", result |-> v, writes |-> FALSE]
      [] op = "throwing"        -> [value |-> v, status |-> "failed", result |-> 0, writes |-> FALSE]
      [] op = "slowSetValue100" -> [value |-> HundredValue, status |-> "done", result |-> 0, writes |-> TRUE]
      [] op \in TaskOps         -> [value |-> v + 1, status |-> "done", result |-> 0, writes |-> TRUE]
      [] op = RiskyTask         -> [value |-> v, status |-> "failed", result |-> 0, writes |-> FALSE]

\* how long the body of an operation blocks before it touches the Counter
SleepOf(op) == IF op = "slowSetValue100" THEN SleepLen ELSE 0

(* ---------------------------------------------------------------------- *)
(* State                                                                   *)
(* ---------------------------------------------------------------------- *)

VARIABLES
    value,        \* the wrapped Counter's value
    queue,        \* the ActorRef's message queue: ids of the waiting messages
    issued,       \* every call made so far, in issuance order; the index is the id
    fut,          \* id -> state of the CompletableFuture the call returned
    res,          \* id -> value the future completed with (ask / askNow)
    inflight,     \* queued messages being executed: id -> ticks of sleep left
    nowPending,   \* tellNow / askNow bodies running on their own virtual thread
    workerUp,     \* the actor's virtual thread is in its processing loop
    alive,        \* the atomic running flag: isAlive()
    registry,     \* names registered in the ActorSystem
    started,      \* ids in the order the worker took them from the queue
    execLog,      \* ids in the order their bodies ran against the Counter
    saw,          \* id -> id of the last write the body observed (0: none)
    overlap,      \* id of an immediate call -> the call it overlapped was still in flight when it ran
    discarded,    \* ids removed from the queue without having been executed
    lastWriter,   \* id of the operation that wrote the Counter last (0: none)
    cleared,      \* the clearPendingMessages() calls made: what each returned and discarded
    poolsUp       \* the work-stealing pools of the ActorSystem are running

mailboxVars == <<value, queue, issued, fut, res, inflight, nowPending, workerUp,
                 alive, registry, started, execLog, saw, overlap, discarded,
                 lastWriter, cleared, poolsUp>>

VARIABLES
    iiActors,          \* names registered in the IIActorSystem
    parentName,        \* actor name -> name of its parent (<<>>: none)
    childNames,        \* actor name -> names of its children, in insertion order
    flags,             \* worker name -> the flag its POJO holds
    table,             \* the loaded workflow: its steps in definition order
    currentState,      \* Interpreter.getCurrentState()
    currentStepIndex,  \* index of the step taken last (0: none yet)
    pc,                \* "idle", or "running" inside runUntilEnd
    maxIter,           \* the maxIterations of the runUntilEnd in progress
    attempts,          \* transition attempts made by the current / last runUntilEnd
    lastResult,        \* the ActionResult returned last by execCode / runUntilEnd
    attemptFrom,       \* currentState at the start of the last transition attempt
    trace,             \* last attempt: outcome of every step scanned, in order
    actLog,            \* last attempt: every action executed, in order
    reached            \* the state the last successful attempt led to

interpVars == <<iiActors, parentName, childNames, flags, table, currentState,
                currentStepIndex, pc, maxIter, attempts, lastResult, attemptFrom,
                trace, actLog, reached>>

\* the part of the interpreter's state that is not the actor hierarchy
workflowVars == <<flags, table, currentState, currentStepIndex, pc, maxIter, attempts,
                  lastResult, attemptFrom, trace, actLog, reached>>

VARIABLES
    lastOrigin,      \* origin of the last resolveActorPath call (<<>>: no call yet)
    lastPath,        \* path of the last resolveActorPath call
    lastResolved,    \* the list the last resolveActorPath call returned
    lastRegistered   \* the names registered when that call was made

resolverVars == <<lastOrigin, lastPath, lastResolved, lastRegistered>>

VARIABLES
    heap,         \* the step objects in memory: object id -> step
    baseRefs,     \* the base workflow: the ids of its steps, in order
    base0,        \* the steps of the base workflow as they were loaded
    conf,         \* the overlay-conf.yaml: its patches and vars
    outRefs,      \* the workflow the last build returned: the ids of its steps
    outcome,      \* how the last build ended: "none", "ok" or "orphan", with the error's fields
    rawSteps,     \* last build: the merged steps before variable substitution
    builtSteps,   \* last build: the steps of the workflow it returned
    first,        \* outcome and steps of the first build
    builds        \* number of builds made

overlayVars == <<heap, baseRefs, base0, conf, outRefs, outcome, rawSteps, builtSteps,
                 first, builds>>

VARIABLES
    sysActors,    \* the ActorSystem's registry: the (name, ref) entries of its map
    actorRefs,    \* every ActorRef constructed so far: ref id -> its name and running flag
    pools,        \* the work-stealing pools in index order: TRUE while running
    term,         \* terminate(): where it stands, and the refs registered when it began
    sysLog        \* the calls made on the ActorSystem, in the order they took effect

systemVars == <<sysActors, actorRefs, pools, term, sysLog>>

VARIABLES
    tasks         \* the Schedulers' tasks: task id -> "none", "scheduled" or "cancelled"

schedulerVars == <<tasks>>

VARIABLES
    mPattern,     \* the source pattern handed to the state matcher (<<>>: none)
    mState,       \* the current state handed to it
    mResult       \* what the matcher answered ("none": not asked yet)

matcherVars == <<mPattern, mState, mResult>>

VARIABLES
    onPool        \* operations handed to a work-stealing pool whose bodies have not run yet

poolVars == <<onPool>>

VARIABLES
    scanAt,       \* the transition attempt in progress: its step and action (0, 0: none)
    child,        \* the child interpreter of the call in progress
    lastCall      \* the last call action: what it found, and how it ended

callVars == <<scanAt, child, lastCall>>

VARIABLES
    removedAt     \* system.removeActor on the counter: made or not, and the queue it found

removalVars == <<removedAt>>

VARIABLES
    rnIn,         \* the workflows of an overlay before the name transformation
    rnConf,       \* namePrefix and nameSuffix of the overlay-conf.yaml
    rnOut         \* the workflows the name transformation returned

renameVars == <<rnIn, rnConf, rnOut>>

\* the components added around the four above
restVars == <<systemVars, schedulerVars, matcherVars, poolVars, callVars, removalVars, renameVars>>

\* what an interpreter that executes call actions leaves alone
outsideCall == <<mailboxVars, resolverVars, overlayVars, systemVars, schedulerVars,
                 matcherVars, poolVars, removalVars, renameVars>>

\* what the mailbox of the counter leaves alone
outsideMailbox == <<interpVars, resolverVars, overlayVars, restVars>>

\* what the interpreter leaves alone
outsideInterp == <<mailboxVars, resolverVars, overlayVars, restVars>>

vars == <<mailboxVars, interpVars, resolverVars, overlayVars, restVars>>

Ids == 1..Len(issued)

\* the calls made so far on the actor's handle
Calls == Len(issued) + Len(cleared)

Range(s) == {s[i] : i \in 1..Len(s)}

\* position of id in a sequence without duplicates (0: absent)
Pos(s, x) == IF x \in Range(s) THEN CHOOSE i \in 1..Len(s) : s[i] = x ELSE 0

(* ---------------------------------------------------------------------- *)
(* ActorRef                                                                *)
(* ---------------------------------------------------------------------- *)

\* tellNow/askNow bypass the queue; tell/ask go through it
ImmediateNever(mode) == FALSE

Immediate(mode) == mode = "now"

\* the worker takes the message at the head of the BlockingQueue
PollLast(q) == [msg |-> q[Len(q)], rest |-> SubSeq(q, 1, Len(q) - 1)]

Poll(q) == [msg |-> Head(q), rest |-> Tail(q)]

\* the single virtual thread processes one message at a time
CanStartAlways(running) == TRUE

CanStart(running) == running = {}

\* the processing loop after a message whose body ended with `status`:
\* the exception went into the future, the loop goes on
LoopAfterDies(status, up) == up /\ status # "failed"

LoopAfter(status, up) == up

\* close() stops the message processing loop
LoopAfterCloseStays(up) == up

LoopAfterClose(up) == FALSE

\* the queued operation an immediate call is issued during: one that is in
\* flight and still in its sleep (0: none)
During ==
    IF \E q \in DOMAIN inflight : inflight[q] > 0
    THEN CHOOSE q \in DOMAIN inflight : inflight[q] > 0
    ELSE 0

\* tell / ask / tellNow / askNow: record the call and hand out its future;
\* nothing of the body runs on the caller's thread
\* sending a message does not change whether the actor is alive
AliveAfterSubmitRevived(a) == TRUE

AliveAfterSubmit(a) == a

\* nor does it start a processing loop that close() has stopped
WorkerAfterSubmitRestarted(up) == TRUE

WorkerAfterSubmit(up) == up

Submit(op, kind, mode) ==
    /\ Calls < MaxOps
    /\ LET id == Len(issued) + 1 IN
        /\ issued' = Append(issued, [op |-> op, kind |-> kind, mode |-> mode,
                                     during |-> IF mode = "now" THEN During ELSE 0])
        /\ fut' = Append(fut, "pending")
        /\ res' = Append(res, 0)
        /\ saw' = Append(saw, 0)
        /\ overlap' = Append(overlap, FALSE)
        /\ IF Immediate(mode)
           THEN /\ nowPending' = nowPending \cup {id}
                /\ queue' = queue
           ELSE /\ queue' = Append(queue, id)
                /\ nowPending' = nowPending
    /\ alive' = AliveAfterSubmit(alive)
    /\ workerUp' = WorkerAfterSubmit(workerUp)
    /\ UNCHANGED <<value, inflight, registry, started, execLog,
                   discarded, lastWriter>>
    /\ UNCHANGED <<cleared, poolsUp>>
    /\ UNCHANGED outsideMailbox

Tell(op) == Submit(op, "tell", "queued")

Ask(op) == Submit(op, "ask", "queued")

TellNow(op) == Submit(op, "tellNow", "now")

AskNow(op) == Submit(op, "askNow", "now")

\* the future of a call is completed with the result of its body or,
\* exceptionally, with what the body threw
CompletedOnSuccessOnly(status) == IF status = "failed" THEN "pending" ELSE status

Completed(status) == status

\* running the body of call `id` against the Counter and completing its future
RunBody(id) ==
    LET e == Effect(issued[id].op, value) IN
        /\ value' = e.value
        /\ fut' = [fut EXCEPT ![id] = Completed(e.status)]
        /\ res' = [res EXCEPT ![id] = e.result]
        /\ saw' = [saw EXCEPT ![id] = lastWriter]
        /\ lastWriter' = IF e.writes THEN id ELSE lastWriter
        /\ execLog' = Append(execLog, id)
        /\ overlap' = [overlap EXCEPT ![id] =
                          /\ issued[id].during # 0
                          /\ issued[id].during \in DOMAIN inflight
                          /\ fut[issued[id].during] = "pending"]

\* the worker loop: take the next message from the queue
StartQueued ==
    /\ workerUp
    /\ queue # <<>>
    /\ CanStart(DOMAIN inflight)
    /\ LET p == Poll(queue) IN
        /\ queue' = p.rest
        /\ inflight' = [i \in DOMAIN inflight \cup {p.msg} |->
                          IF i = p.msg THEN SleepOf(issued[p.msg].op) ELSE inflight[i]]
        /\ started' = Append(started, p.msg)
    /\ UNCHANGED <<value, issued, fut, res, nowPending, workerUp, alive, registry,
                   execLog, saw, overlap, discarded, lastWriter>>
    /\ UNCHANGED <<cleared, poolsUp>>
    /\ UNCHANGED outsideMailbox

\* the worker loop: the body of the message in flight runs and its future completes
FinishQueued(id) ==
    /\ id \in DOMAIN inflight
    /\ inflight[id] = 0
    /\ RunBody(id)
    /\ inflight' = [i \in DOMAIN inflight \ {id} |-> inflight[i]]
    /\ workerUp' = LoopAfter(Effect(issued[id].op, value).status, workerUp)
    /\ UNCHANGED <<queue, issued, nowPending, alive, registry, started, discarded>>
    /\ UNCHANGED <<cleared, poolsUp>>
    /\ UNCHANGED outsideMailbox

\* an immediate body does not wait for the message the worker is processing
NowMayRunWhenIdle(running) == running = {}

NowMayRun(running) == TRUE

\* the virtual thread of a tellNow / askNow runs the body at once
RunNow(id) ==
    /\ id \in nowPending
    /\ NowMayRun(DOMAIN inflight)
    /\ RunBody(id)
    /\ nowPending' = nowPending \ {id}
    /\ UNCHANGED <<queue, issued, inflight, workerUp, alive, registry, started,
                   discarded>>
    /\ UNCHANGED <<cleared, poolsUp>>
    /\ UNCHANGED outsideMailbox

\* time passes for the sleeping bodies; an immediate body does not wait for it
Tick ==
    /\ nowPending = {}
    /\ \E q \in DOMAIN inflight : inflight[q] > 0
    /\ inflight' = [i \in DOMAIN inflight |-> IF inflight[i] > 0 THEN inflight[i] - 1 ELSE 0]
    /\ UNCHANGED <<value, queue, issued, fut, res, nowPending, workerUp, alive, registry,
                   started, execLog, saw, overlap, discarded, lastWriter>>
    /\ UNCHANGED <<cleared, poolsUp>>
    /\ UNCHANGED outsideMailbox

\* close(): stop the loop, clear the queue, remove the actor from its system
Close ==
    /\ alive
    /\ alive' = FALSE
    /\ workerUp' = LoopAfterClose(workerUp)
    /\ discarded' = discarded \cup Range(queue)
    /\ queue' = <<>>
    /\ registry' = registry \ {ActorName}
    /\ UNCHANGED <<value, issued, fut, res, inflight, nowPending, started, execLog,
                   saw, overlap, lastWriter>>
    /\ UNCHANGED <<cleared, poolsUp>>
    /\ UNCHANGED outsideMailbox

\* clearPendingMessages() leaves the message being processed alone
InflightAfterClearCancelled(running) == <<>>

InflightAfterClear(running) == running

\* actorRef.clearPendingMessages(): the queued messages are removed and counted
ClearPendingMessages ==
    /\ Calls < MaxOps
    /\ cleared' = Append(cleared, [count |-> Len(queue), ids |-> Range(queue),
                                   running |-> DOMAIN inflight])
    /\ discarded' = discarded \cup Range(queue)
    /\ queue' = <<>>
    /\ inflight' = InflightAfterClear(inflight)
    /\ UNCHANGED <<value, issued, fut, res, nowPending, workerUp, alive, registry, started,
                   execLog, saw, overlap, lastWriter, poolsUp>>
    /\ UNCHANGED outsideMailbox

\* system.terminate(): the registered actors are closed, then the work-stealing
\* pools are shut down
Terminate ==
    /\ poolsUp
    /\ IF ActorName \in registry /\ alive
       THEN /\ alive' = FALSE
            /\ workerUp' = LoopAfterClose(workerUp)
            /\ discarded' = discarded \cup Range(queue)
            /\ queue' = <<>>
            /\ registry' = registry \ {ActorName}
       ELSE UNCHANGED <<alive, workerUp, discarded, queue, registry>>
    /\ poolsUp' = FALSE
    /\ UNCHANGED <<value, issued, fut, res, inflight, nowPending, started, execLog,
                   saw, overlap, lastWriter, cleared>>
    /\ UNCHANGED outsideMailbox

(* ---------------------------------------------------------------------- *)
(* Strings of the workflow language                                        *)
(* ---------------------------------------------------------------------- *)

\* the initial state "0", the state "1" and the terminal state "end"
S0 == <<"0">>

S1 == <<"1">>

SEnd == <<"e", "n", "d">>

\* state patterns: "*", "!end", "0|1"
PatAny == <<"*">>

PatNotEnd == <<"!", "e", "n", "d">>

Pat0Or1 == <<"0", "|", "1">>

\* actor names: the interpreter "main" and its children "w1", "w2"
NMain == <<"m", "a", "i", "n">>

NW1 == <<"w", "1">>

NW2 == <<"w", "2">>

NoName == <<>>

\* actor paths: "this", ".", "..", "./*", "./w1", "./w2", "./x"
PathThis == <<"t", "h", "i", "s">>

PathDot == <<".">>

PathDotDot == <<".", ".">>

PathAllChildren == <<".", "/", "*">>

PathW1 == <<".", "/", "w", "1">>

PathW2 == <<".", "/", "w", "2">>

PathNobody == <<".", "/", "x">>

StartsWith(s, p) == Len(p) <= Len(s) /\ SubSeq(s, 1, Len(p)) = p

EndsWith(s, p) == Len(p) <= Len(s) /\ SubSeq(s, Len(s) - Len(p) + 1, Len(s)) = p

\* the part of s after its first n characters
Drop(s, n) == SubSeq(s, n + 1, Len(s))

\* s cut at every occurrence of the character c
RECURSIVE Split(_, _)
Split(s, c) ==
    IF \E i \in 1..Len(s) : s[i] = c
    THEN LET i == CHOOSE k \in 1..Len(s) : s[k] = c /\ \A j \in 1..(k - 1) : s[j] # c
         IN <<SubSeq(s, 1, i - 1)>> \o Split(Drop(s, i), c)
    ELSE <<s>>

(* ---------------------------------------------------------------------- *)
(* State patterns                                                          *)
(* ---------------------------------------------------------------------- *)

\* the decimal digits
Digits == {"0", "1", "2", "3", "4", "5", "6", "7", "8", "9"}

DigitValue(c) ==
    CASE c = "0" -> 0 [] c = "1" -> 1 [] c = "2" -> 2 [] c = "3" -> 3 [] c = "4" -> 4
      [] c = "5" -> 5 [] c = "6" -> 6 [] c = "7" -> 7 [] c = "8" -> 8 [] c = "9" -> 9

\* the text is a number: digits, with or without a sign
IsNumber(s) ==
    LET body == IF s # <<>> /\ Head(s) = "-" THEN Tail(s) ELSE s
    IN body # <<>> /\ \A i \in 1..Len(body) : body[i] \in Digits

RECURSIVE NatOf(_)
NatOf(s) == IF s = <<>> THEN 0 ELSE 10 * NatOf(SubSeq(s, 1, Len(s) - 1)) + DigitValue(s[Len(s)])

\* the number a text parses to
NumberOf(s) == IF Head(s) = "-" THEN 0 - NatOf(Tail(s)) ELSE NatOf(s)

\* the comparison operators, the two-character ones before their prefixes
Comparisons == << <<">", "=">>, <<"<", "=">>, <<"=", "=">>, <<">">>, <<"<">> >>

\* the comparison operator a pattern begins with (<<>>: none)
ComparisonOf(pattern) ==
    IF \E k \in 1..Len(Comparisons) : StartsWith(pattern, Comparisons[k])
    THEN Comparisons[CHOOSE k \in 1..Len(Comparisons) :
                        /\ StartsWith(pattern, Comparisons[k])
                        /\ \A j \in 1..(k - 1) : ~StartsWith(pattern, Comparisons[j])]
    ELSE <<>>

Compare(op, a, b) ==
    CASE op = <<">", "=">> -> a >= b
      [] op = <<"<", "=">> -> a <= b
      [] op = <<"=", "=">> -> a = b
      [] op = <<">">>      -> a > b
      [] op = <<"<">>      -> a < b

\* numeric comparison: the state and the text behind the operator are parsed
NumericMatch(pattern, state) ==
    LET op == ComparisonOf(pattern)
        rhs == Drop(pattern, Len(op))
    IN /\ op # <<>>
       /\ IsNumber(rhs)
       /\ IsNumber(state)
       /\ Compare(op, NumberOf(state), NumberOf(rhs))

\* a pattern that equals the state matches, whatever characters it is made of
ExactMatchNever(pattern, state) == FALSE

ExactMatch(pattern, state) == pattern = state

\* does the source pattern of a step match the current state: exact match,
\* wildcard, negation, OR, numeric comparison, tried in this order
Matches(pattern, state) ==
    IF ExactMatch(pattern, state) THEN TRUE
    ELSE IF pattern = PatAny THEN TRUE
    ELSE IF Len(pattern) > 1 /\ Head(pattern) = "!" THEN Tail(pattern) # state
    ELSE IF \E i \in 1..Len(pattern) : pattern[i] = "|"
    THEN \E k \in 1..Len(Split(pattern, "|")) : Split(pattern, "|")[k] = state
    ELSE NumericMatch(pattern, state)

(* ---------------------------------------------------------------------- *)
(* IIActorSystem: path resolution                                          *)
(* ---------------------------------------------------------------------- *)

\* glob-style match of an actor name: exact, "*", "prefix*", "*suffix"
GlobMatchPrefixOnly(pat, name) ==
    \/ pat = name
    \/ pat = <<"*">>
    \/ Len(pat) > 1 /\ pat[Len(pat)] = "*" /\ StartsWith(name, SubSeq(pat, 1, Len(pat) - 1))

GlobMatch(pat, name) ==
    \/ pat = name
    \/ pat = <<"*">>
    \/ Len(pat) > 1 /\ pat[Len(pat)] = "*" /\ StartsWith(name, SubSeq(pat, 1, Len(pat) - 1))
    \/ Len(pat) > 1 /\ pat[1] = "*" /\ EndsWith(name, Tail(pat))

\* the registered actors among `names` that match `pat`, in the order of `names`
MatchingActors(names, pat) ==
    LET Hit(n) == n \in iiActors /\ GlobMatch(pat, n) IN SelectSeq(names, Hit)

\* "..": the actor registered under the origin's parent name, if any
ParentOfUnchecked(origin) == <<parentName[origin]>>

ParentOf(origin) ==
    LET parent == parentName[origin] IN
    IF parent # NoName /\ parent \in iiActors THEN <<parent>> ELSE <<>>

\* "../<pattern>": the names the pattern is matched against are the children
\* of the origin's parent, the origin among them
SiblingNamesWithoutSelf(origin) ==
    LET parent == parentName[origin]
        Other(n) == n # origin
    IN IF parent # NoName /\ parent \in DOMAIN childNames
       THEN SelectSeq(childNames[parent], Other)
       ELSE <<>>

SiblingNames(origin) ==
    LET parent == parentName[origin] IN
    IF parent # NoName /\ parent \in DOMAIN childNames
    THEN childNames[parent]
    ELSE <<>>

\* a name without a path prefix is looked up in the registry
RegisteredAs(name) == IF name \in iiActors THEN <<name>> ELSE <<>>

\* IIActorSystem.resolveActorPath(origin, path)
ResolveActorPath(origin, path) ==
    IF path = PathDot \/ path = PathThis
    THEN IF origin \in iiActors THEN <<origin>> ELSE <<>>
    ELSE IF path = PathDotDot
    THEN ParentOf(origin)
    ELSE IF StartsWith(path, <<".", "/">>)
    THEN MatchingActors(childNames[origin], Drop(path, 2))
    ELSE IF StartsWith(path, <<".", ".", "/">>)
    THEN MatchingActors(SiblingNames(origin), Drop(path, 3))
    ELSE RegisteredAs(path)

(* ---------------------------------------------------------------------- *)
(* Actors of the workflow                                                  *)
(* ---------------------------------------------------------------------- *)

Workers == {NW1, NW2}

\* the child interpreter that a call action creates
NChild == <<"c", "h", "i", "l", "d">>

\* the interpreters: their built-in actions answer "this"
Interpreters == {NMain, NChild}

\* callByActionName of a worker and of the interpreter's own actor: the
\* ActionResult's success flag and the worker flags afterwards
CallByActionName(actor, method, fl) ==
    IF actor \in Interpreters
    THEN [ok |-> method \in {"doNothing", "print"}, flags |-> fl]
    ELSE CASE method = "check" -> [ok |-> fl[actor], flags |-> fl]
           [] method = "mark"  -> [ok |-> TRUE, flags |-> [fl EXCEPT ![actor] = TRUE]]
           [] method = "clear" -> [ok |-> TRUE, flags |-> [fl EXCEPT ![actor] = FALSE]]
           [] OTHER            -> [ok |-> FALSE, flags |-> fl]

\* the method is dispatched to every resolved actor, in order
RECURSIVE CallAll(_, _, _)
CallAll(actors, method, fl) ==
    IF actors = <<>>
    THEN [results |-> <<>>, flags |-> fl]
    ELSE LET r == CallByActionName(Head(actors), method, fl)
             rest == CallAll(Tail(actors), method, r.flags)
         IN [results |-> <<r.ok>> \o rest.results, flags |-> rest.flags]

\* a path that resolves to no actor is a failure of the action
ResolvedEnoughVacuous(actors) == TRUE

ResolvedEnough(actors) == actors # <<>>

\* every resolved actor's result must be a success
AllSucceeded(results) == \A i \in 1..Len(results) : results[i]

\* one action of a step: resolve the actor path from the interpreter's own
\* actor, dispatch the method, decide success
RunAction(action, fl) ==
    LET actors == ResolveActorPath(NMain, action.actor)
        r == CallAll(actors, action.method, fl)
        ok == ResolvedEnough(actors) /\ AllSucceeded(r.results)
    IN [ok |-> ok, flags |-> r.flags,
        entry |-> [actor |-> action.actor, method |-> action.method,
                   resolved |-> actors, results |-> r.results, ok |-> ok]]

\* the actions that are still executed once the first of `actions` has
\* failed: none, the transition is aborted
RemainingAfterFailureAll(actions) == Tail(actions)

RemainingAfterFailure(actions) == <<>>

\* the actions of a step, in order, up to the first one that fails
RECURSIVE RunActions(_, _, _)
RunActions(actions, fl, log) ==
    IF actions = <<>>
    THEN [ok |-> TRUE, flags |-> fl, log |-> log]
    ELSE LET r == RunAction(Head(actions), fl) IN
         IF r.ok
         THEN RunActions(Tail(actions), r.flags, Append(log, r.entry))
         ELSE [RunActions(RemainingAfterFailure(actions), r.flags, Append(log, r.entry))
                  EXCEPT !.ok = FALSE]

(* ---------------------------------------------------------------------- *)
(* Interpreter                                                             *)
(* ---------------------------------------------------------------------- *)

\* the state after a matching step whose actions ended with `ok`
StateAfterStepAlways(ok, cur, dst) == dst

StateAfterStep(ok, cur, dst) == IF ok THEN dst ELSE cur

\* what the actors hold after a step that failed: what its actions left,
\* nothing is undone
FlagsAfterFailedRolledBack(before, after) == before

FlagsAfterFailed(before, after) == after

\* where the scan goes on after the matching step i failed: the next step
NextAfterFailedStop(i) == Len(table) + 1

NextAfterFailed(i) == i + 1

\* one transition attempt from step i on: the first step that matches the
\* current state and whose actions all succeed is taken
RECURSIVE Scan(_, _, _, _, _)
Scan(i, cur, fl, tr, log) ==
    IF i > Len(table)
    THEN [ok |-> FALSE, state |-> cur, index |-> currentStepIndex,
          flags |-> fl, trace |-> tr, log |-> log]
    ELSE IF ~Matches(table[i].src, cur)
    THEN Scan(i + 1, cur, fl, Append(tr, "skip"), log)
    ELSE LET r == RunActions(table[i].actions, fl, log) IN
         IF r.ok
         THEN [ok |-> TRUE, state |-> StateAfterStep(TRUE, cur, table[i].dst), index |-> i,
               flags |-> r.flags, trace |-> Append(tr, "ok"), log |-> r.log]
         ELSE Scan(NextAfterFailed(i), StateAfterStep(FALSE, cur, table[i].dst),
                   FlagsAfterFailed(fl, r.flags), Append(tr, "fail"), r.log)

Attempt == Scan(1, currentState, flags, <<>>, <<>>)

\* what a transition attempt leaves in the interpreter and in the actors
ApplyAttempt(r) ==
    /\ currentState' = r.state
    /\ currentStepIndex' = r.index
    /\ flags' = r.flags
    /\ attemptFrom' = currentState
    /\ trace' = r.trace
    /\ actLog' = r.log
    /\ reached' = IF r.ok THEN r.state ELSE reached

\* interpreter.execCode(): a single transition attempt
ExecCode ==
    /\ pc = "idle"
    /\ LET r == Attempt IN
        /\ ApplyAttempt(r)
        /\ lastResult' = [by |-> "execCode", ok |-> r.ok,
                          why |-> IF r.ok THEN "step" ELSE "attempt", state |-> r.state]
    /\ UNCHANGED <<iiActors, parentName, childNames, table, pc, maxIter, attempts>>
    /\ UNCHANGED outsideInterp

\* runUntilEnd stops when an attempt fails
StopsOnFailureNever(ok) == FALSE

StopsOnFailure(ok) == ~ok

\* runUntilEnd stops when the workflow has reached "end"
ReachedEnd(state) == state = SEnd

\* runUntilEnd stops after maxIterations attempts
LimitReachedNever(n, max) == FALSE

LimitReached(n, max) == n >= max

\* the success flag runUntilEnd returns when it stops at the iteration limit
LimitResultOk == FALSE

\* the message of that result: not the one of a failed transition attempt
LimitMessageAsFailure == "attempt"

LimitMessage == "limit"

\* interpreter.runUntilEnd(maxIterations): entry
RunUntilEndStart(max) ==
    /\ pc = "idle"
    /\ maxIter' = max
    /\ attempts' = 0
    /\ \/ /\ pc' = "running"
          /\ lastResult' = lastResult
       \/ /\ ReachedEnd(currentState)
          /\ pc' = "idle"
          /\ lastResult' = [by |-> "runUntilEnd", ok |-> TRUE, why |-> "end",
                            state |-> currentState]
    /\ attemptFrom' = currentState
    /\ trace' = <<>>
    /\ actLog' = <<>>
    /\ UNCHANGED <<iiActors, parentName, childNames, flags, table, currentState,
                   currentStepIndex, reached>>
    /\ UNCHANGED outsideInterp

\* interpreter.runUntilEnd(maxIterations): one iteration of its loop
RunIterate ==
    /\ pc = "running"
    /\ attempts <= MaxIter
    /\ LET r == Attempt
           n == attempts + 1
       IN
        /\ ApplyAttempt(r)
        /\ attempts' = n
        /\ IF StopsOnFailure(r.ok)
           THEN /\ pc' = "idle"
                /\ lastResult' = [by |-> "runUntilEnd", ok |-> FALSE, why |-> "attempt",
                                  state |-> r.state]
           ELSE IF ReachedEnd(r.state)
           THEN /\ pc' = "idle"
                /\ lastResult' = [by |-> "runUntilEnd", ok |-> TRUE, why |-> "end",
                                  state |-> r.state]
           ELSE IF LimitReached(n, maxIter)
           THEN /\ pc' = "idle"
                /\ lastResult' = [by |-> "runUntilEnd", ok |-> LimitResultOk, why |-> LimitMessage,
                                  state |-> r.state]
           ELSE /\ pc' = "running"
                /\ lastResult' = lastResult
    /\ UNCHANGED <<iiActors, parentName, childNames, table, maxIter>>
    /\ UNCHANGED outsideInterp

\* the POJO of a worker changes between two calls of the interpreter
Toggle(w) ==
    /\ flags' = [flags EXCEPT ![w] = ~@]
    /\ UNCHANGED <<iiActors, parentName, childNames, table, currentState,
                   currentStepIndex, pc, maxIter, attempts, lastResult, attemptFrom,
                   trace, actLog, reached>>
    /\ UNCHANGED outsideInterp

(* ---------------------------------------------------------------------- *)
(* Workflows of the model                                                  *)
(* ---------------------------------------------------------------------- *)

Act(actor, method) == [actor |-> actor, method |-> method]

Step(src, dst, actions) == [src |-> src, dst |-> dst, actions |-> actions]

\* the steps workflows are made of
StepPool ==
    { Step(S0, S1, <<Act(PathW1, "check"), Act(PathW2, "mark")>>),
      Step(S1, SEnd, <<Act(PathAllChildren, "check")>>),
      Step(S1, SEnd, <<Act(PathThis, "doNothing")>>),
      Step(PatAny, S0, <<Act(PathW2, "process")>>),
      Step(Pat0Or1, S1, <<Act(PathNobody, "check")>>),
      Step(PatNotEnd, S1, <<Act(PathW1, "mark"), Act(PathAllChildren, "check")>>) }

RECURSIVE TablesOfLen(_)
TablesOfLen(n) ==
    IF n = 0 THEN {<<>>}
    ELSE {Append(t, s) : t \in TablesOfLen(n - 1), s \in StepPool}

Tables == UNION {TablesOfLen(n) : n \in 1..MaxSteps}

\* no interpreter at work: the part of the state the mailbox leaves alone
InterpIdle ==
    /\ iiActors = {}
    /\ parentName = <<>>
    /\ childNames = <<>>
    /\ flags = <<>>
    /\ table = <<>>
    /\ currentState = S0
    /\ currentStepIndex = 0
    /\ pc = "idle"
    /\ maxIter = 0
    /\ attempts = 0
    /\ lastResult = [by |-> "none", ok |-> FALSE, why |-> "none", state |-> S0]
    /\ attemptFrom = S0
    /\ trace = <<>>
    /\ actLog = <<>>
    /\ reached = S0

\* the interpreter "main" with the workers "w1" and "w2" as its children,
\* a workflow loaded, in the initial state "0"
InterpInit ==
    /\ iiActors = {NMain, NW1, NW2}
    /\ parentName = (NMain :> NoName) @@ (NW1 :> NMain) @@ (NW2 :> NMain)
    /\ childNames = (NMain :> <<NW1, NW2>>) @@ (NW1 :> <<>>) @@ (NW2 :> <<>>)
    /\ flags \in [Workers -> BOOLEAN]
    /\ table \in Tables
    /\ currentState = S0
    /\ currentStepIndex = 0
    /\ pc = "idle"
    /\ maxIter = 0
    /\ attempts = 0
    /\ lastResult = [by |-> "none", ok |-> FALSE, why |-> "none", state |-> S0]
    /\ attemptFrom = S0
    /\ trace = <<>>
    /\ actLog = <<>>
    /\ reached = S0

InterpNext ==
    \/ ExecCode
    \/ \E max \in 1..MaxIter : RunUntilEndStart(max)
    \/ RunIterate
    \/ \E w \in Workers : Toggle(w)

(* ---------------------------------------------------------------------- *)
(* IIActorSystem: registry and path resolution calls                       *)
(* ---------------------------------------------------------------------- *)

\* actor names of the path resolution examples: "p", "c1", "c2", "other"
NP == <<"p">>

NC1 == <<"c", "1">>

NC2 == <<"c", "2">>

NOther == <<"o", "t", "h", "e", "r">>

\* actor paths: "../*", "./w*", "../c2", "../*2", "./c1", and names without prefix
PathAllSiblings == <<".", ".", "/", "*">>

PathChildrenW == <<".", "/", "w", "*">>

PathSiblingC2 == <<".", ".", "/", "c", "2">>

PathSiblingsEnd2 == <<".", ".", "/", "*", "2">>

PathC1 == <<".", "/", "c", "1">>

\* the names of the wildcard examples: "worker-1", "worker", "event-handler",
\* "error-handler"
NWorker1 == <<"w", "o", "r", "k", "e", "r", "-", "1">>

NWorker == <<"w", "o", "r", "k", "e", "r">>

NEventHandler == <<"e", "v", "e", "n", "t", "-", "h", "a", "n", "d", "l", "e", "r">>

NErrorHandler == <<"e", "r", "r", "o", "r", "-", "h", "a", "n", "d", "l", "e", "r">>

\* "./worker*" and "../*-handler"
PathWorkers == <<".", "/">> \o NWorker \o <<"*">>

PathHandlers == <<".", ".", "/", "*", "-", "h", "a", "n", "d", "l", "e", "r">>

PathPool ==
    { PathDot, PathThis, PathDotDot, PathAllChildren, PathAllSiblings, PathChildrenW,
      PathSiblingC2, PathSiblingsEnd2, PathC1, PathNobody, NC1, NP, NW2,
      PathWorkers, PathHandlers }

\* the hierarchies of the examples: the children listed by "p", and the actors
\* that name "p" as their parent
Hierarchies ==
    { [children |-> <<NC1, NC2>>, claiming |-> {NC1, NC2}],
      [children |-> <<NW1, NW2, NOther>>, claiming |-> {NW1, NW2, NOther}],
      [children |-> <<NC1>>, claiming |-> {NC1, NC2}],
      [children |-> <<NWorker1, NEventHandler, NWorker, NErrorHandler>>,
       claiming |-> {NWorker1, NEventHandler, NWorker, NErrorHandler}] }

\* resolveActorPath creates no handle
HandlesCreatedByMissing(origin, path) ==
    IF ResolveActorPath(origin, path) = <<>> THEN {PathNobody} ELSE {}

HandlesCreatedBy(origin, path) == {}

\* system.resolveActorPath(origin, path)
ResolveActorPathCall(origin, path) ==
    /\ origin \in iiActors
    /\ lastOrigin' = origin
    /\ lastPath' = path
    /\ lastResolved' = ResolveActorPath(origin, path)
    /\ lastRegistered' = iiActors
    /\ iiActors' = iiActors \cup HandlesCreatedBy(origin, path)
    /\ UNCHANGED <<parentName, childNames>>
    /\ UNCHANGED <<workflowVars, mailboxVars, overlayVars, restVars>>

\* system.removeIIActor(name): the actor is unregistered, the hierarchy is not touched
RemoveIIActor(name) ==
    /\ name \in iiActors
    /\ iiActors' = iiActors \ {name}
    /\ UNCHANGED <<parentName, childNames>>
    /\ UNCHANGED <<workflowVars, mailboxVars, resolverVars, overlayVars, restVars>>

\* system.addIIActor(actor) of an actor whose wiring was set before
AddIIActor(name) ==
    /\ name \in DOMAIN parentName
    /\ name \notin iiActors
    /\ iiActors' = iiActors \cup {name}
    /\ UNCHANGED <<parentName, childNames>>
    /\ UNCHANGED <<workflowVars, mailboxVars, resolverVars, overlayVars, restVars>>

\* no resolveActorPath call made yet
ResolverIdle ==
    /\ lastOrigin = NoName
    /\ lastPath = <<>>
    /\ lastResolved = <<>>
    /\ lastRegistered = {}

\* no workflow loaded
WorkflowIdle ==
    /\ flags = <<>>
    /\ table = <<>>
    /\ currentState = S0
    /\ currentStepIndex = 0
    /\ pc = "idle"
    /\ maxIter = 0
    /\ attempts = 0
    /\ lastResult = [by |-> "none", ok |-> FALSE, why |-> "none", state |-> S0]
    /\ attemptFrom = S0
    /\ trace = <<>>
    /\ actLog = <<>>
    /\ reached = S0

\* the parent "p" and its children registered and wired
HierarchyInit ==
    \E h \in Hierarchies :
        LET names == {NP} \cup h.claiming IN
        /\ iiActors = names
        /\ parentName = [n \in names |-> IF n \in h.claiming THEN NP ELSE NoName]
        /\ childNames = [n \in names |-> IF n = NP THEN h.children ELSE <<>>]

ResolverNext ==
    \/ \E origin \in DOMAIN parentName, path \in PathPool : ResolveActorPathCall(origin, path)
    \/ \E name \in DOMAIN parentName : RemoveIIActor(name)
    \/ \E name \in DOMAIN parentName : AddIIActor(name)

(* ---------------------------------------------------------------------- *)
(* WorkflowKustomizer: variable substitution                               *)
(* ---------------------------------------------------------------------- *)

\* variable names "x", "y" and values "5", "7", "prod"
VarX == <<"x">>

VarY == <<"y">>

Str5 == <<"5">>

Str7 == <<"7">>

StrProd == <<"p", "r", "o", "d">>

Str30000 == <<"3", "0", "0", "0", "0">>

\* the vars of an overlay-conf.yaml; a variable used without a default is defined
VarsPool ==
    { (VarX :> Str5), (VarX :> StrProd), (VarX :> Str5) @@ (VarY :> Str7) }

\* the parts a string with variable references is written from
Lit(text) == [kind |-> "lit", text |-> text, name |-> <<>>, hasDefault |-> FALSE, default |-> <<>>]

Ref(name) == [kind |-> "ref", text |-> <<>>, name |-> name, hasDefault |-> FALSE, default |-> <<>>]

RefOr(name, default) ==
    [kind |-> "ref", text |-> <<>>, name |-> name, hasDefault |-> TRUE, default |-> default]

\* the text of a part: "${name}", "${name:-default}" or the literal
RenderPart(part) ==
    IF part.kind = "lit" THEN part.text
    ELSE IF part.hasDefault
    THEN <<"$", "{">> \o part.name \o <<":", "-">> \o part.default \o <<"}">>
    ELSE <<"$", "{">> \o part.name \o <<"}">>

RECURSIVE Render(_)
Render(parts) == IF parts = <<>> THEN <<>> ELSE RenderPart(Head(parts)) \o Render(Tail(parts))

\* the strings of the workflows: "10", "60", "5", "${x}", "${y:-30000}", "${x}/d",
\* "${y:-prod}-${x}"
Templates ==
    { <<Lit(<<"1", "0">>)>>,
      <<Lit(<<"6", "0">>)>>,
      <<Lit(Str5)>>,
      <<Ref(VarX)>>,
      <<RefOr(VarY, Str30000)>>,
      <<Ref(VarX), Lit(<<"/", "d">>)>>,
      <<RefOr(VarY, StrProd), Lit(<<"-">>), Ref(VarX)>> }

Txt10 == Render(<<Lit(<<"1", "0">>)>>)

Txt60 == Render(<<Lit(<<"6", "0">>)>>)

TxtX == Render(<<Ref(VarX)>>)

TxtYOr30000 == Render(<<RefOr(VarY, Str30000)>>)

TxtXSlashD == Render(<<Ref(VarX), Lit(<<"/", "d">>)>>)

TxtYOrProdDashX == Render(<<RefOr(VarY, StrProd), Lit(<<"-">>), Ref(VarX)>>)

\* index of the first occurrence of the character c in s (0: none)
FirstIndex(s, c) ==
    IF \E i \in 1..Len(s) : s[i] = c
    THEN CHOOSE i \in 1..Len(s) : s[i] = c /\ \A j \in 1..(i - 1) : s[j] # c
    ELSE 0

\* index of the first ":-" in s (0: none)
FirstDefaultMark(s) ==
    IF \E i \in 1..(Len(s) - 1) : s[i] = ":" /\ s[i + 1] = "-"
    THEN CHOOSE i \in 1..(Len(s) - 1) :
            /\ s[i] = ":" /\ s[i + 1] = "-"
            /\ \A j \in 1..(i - 1) : ~(s[j] = ":" /\ s[j + 1] = "-")
    ELSE 0

\* what a variable reference is replaced by
ReplacementDefaultFirst(name, hasDefault, default, vs, text) ==
    IF hasDefault THEN default
    ELSE IF name \in DOMAIN vs THEN vs[name] ELSE text

Replacement(name, hasDefault, default, vs, text) ==
    IF name \in DOMAIN vs THEN vs[name]
    ELSE IF hasDefault THEN default ELSE text

\* the replacement of the reference "${inner}"
ReplaceReference(inner, vs) ==
    LET mark == FirstDefaultMark(inner)
        name == IF mark = 0 THEN inner ELSE SubSeq(inner, 1, mark - 1)
        default == IF mark = 0 THEN <<>> ELSE Drop(inner, mark + 1)
    IN Replacement(name, mark # 0, default, vs, <<"$", "{">> \o inner \o <<"}">>)

\* substitution of the variables vs in the string s
RECURSIVE Substitute(_, _)
Substitute(s, vs) ==
    IF s = <<>> THEN <<>>
    ELSE IF StartsWith(s, <<"$", "{">>) /\ FirstIndex(s, "}") # 0
    THEN LET close == FirstIndex(s, "}") IN
         ReplaceReference(SubSeq(s, 3, close - 1), vs) \o Substitute(Drop(s, close), vs)
    ELSE <<Head(s)>> \o Substitute(Tail(s), vs)

(* ---------------------------------------------------------------------- *)
(* WorkflowKustomizer: strategic merge                                     *)
(* ---------------------------------------------------------------------- *)

\* a step of a workflow: its vertexName, its states and the arguments of its action
WStep(vertexName, states, args) == [vertexName |-> vertexName, states |-> states, args |-> args]

\* a step of a patch: what it does not mention is absent
PStep(vertexName, delete, hasStates, states, args) ==
    [vertexName |-> vertexName, delete |-> delete, hasStates |-> hasStates,
     states |-> states, args |-> args]

NoArgs == <<>>

\* base/deploy.yaml
StepSetup == WStep("setup", <<S0, S1>>, ("timeout" :> Txt10) @@ ("env" :> TxtX))

StepDeploy == WStep("deploy", <<S1, SEnd>>, ("target" :> TxtYOr30000))

StepVerify == WStep("verify", <<S1, SEnd>>, NoArgs)

Bases == { <<StepSetup, StepDeploy>>, <<StepSetup, StepDeploy, StepVerify>> }

\* the steps patches are written from: an anchor without changes, a modification
\* of the arguments, two new steps, a modification of the states, a deletion,
\* and a step that is new for one base and a modification for the other
PatchStepPool ==
    { PStep("setup", FALSE, FALSE, <<>>, NoArgs),
      PStep("setup", FALSE, FALSE, <<>>, ("timeout" :> Txt60) @@ ("retries" :> Str5)),
      PStep("validate", FALSE, TRUE, <<S1, S1>>, ("url" :> TxtXSlashD)),
      PStep("backup", FALSE, TRUE, <<S1, S1>>, ("tag" :> TxtYOrProdDashX)),
      PStep("deploy", FALSE, TRUE, <<S1, S0>>, NoArgs),
      PStep("deploy", TRUE, FALSE, <<>>, NoArgs),
      PStep("verify", FALSE, FALSE, <<>>, ("mode" :> Txt60)) }

VertexNames(steps) == {steps[i].vertexName : i \in 1..Len(steps)}

\* position of the step with the vertexName v (0: none)
IndexOf(steps, v) ==
    IF v \in VertexNames(steps)
    THEN CHOOSE i \in 1..Len(steps) : steps[i].vertexName = v
    ELSE 0

RECURSIVE PatchesOfLen(_)
PatchesOfLen(n) ==
    IF n = 0 THEN {<<>>}
    ELSE {Append(t, q) : t \in PatchesOfLen(n - 1), q \in PatchStepPool}

\* vertexNames are unique within a patch
PatchSteps ==
    {t \in UNION {PatchesOfLen(n) : n \in 0..MaxPatchLen} :
        Cardinality(VertexNames(t)) = Len(t)}

PatchFile(file, steps) == [file |-> file, steps |-> steps]

\* overlay-conf.yaml: one patch, or patch-a.yaml and then patch-b.yaml
Configs ==
    {[patches |-> <<PatchFile("patch-prod.yaml", t)>>, vars |-> vs] :
        t \in PatchSteps, vs \in VarsPool}
    \cup
    {[patches |-> <<PatchFile("patch-a.yaml", a), PatchFile("patch-b.yaml", b)>>,
      vars |-> vs] :
        a \in {<<PStep("deploy", TRUE, FALSE, <<>>, NoArgs)>>,
               <<PStep("setup", FALSE, FALSE, <<>>, NoArgs),
                 PStep("validate", FALSE, TRUE, <<S1, S1>>, ("url" :> TxtXSlashD))>>},
        b \in {<<PStep("deploy", FALSE, TRUE, <<S1, S0>>, NoArgs)>>,
               <<PStep("validate", FALSE, FALSE, <<>>, ("url" :> Txt60)),
                 PStep("backup", FALSE, TRUE, <<S1, S1>>, NoArgs)>>},
        vs \in {(VarX :> Str5)}}

\* the patch step's fields merged over the base step: the fields and the
\* arguments the patch does not mention are kept
DeepMergeReplace(b, q) == [vertexName |-> b.vertexName, states |-> q.states, args |-> q.args]

DeepMerge(b, q) ==
    [vertexName |-> b.vertexName,
     states |-> IF q.hasStates THEN q.states ELSE b.states,
     args |-> [k \in DOMAIN b.args \cup DOMAIN q.args |->
                  IF k \in DOMAIN q.args THEN q.args[k] ELSE b.args[k]]]

\* the step a new patch step adds
AsStep(q) == WStep(q.vertexName, q.states, q.args)

InsertAt(steps, pos, x) == SubSeq(steps, 1, pos) \o <<x>> \o SubSeq(steps, pos + 1, Len(steps))

RemoveAt(steps, pos) == SubSeq(steps, 1, pos - 1) \o SubSeq(steps, pos + 1, Len(steps))

\* the merged step takes the place of the step it was merged over
ReplaceAtKeepsOld(steps, pos, x) == InsertAt(steps, pos, x)

ReplaceAt(steps, pos, x) == [steps EXCEPT ![pos] = x]

\* a new step without an anchor before it in the patch is an orphan
IsOrphanNever(anchorSeen) == FALSE

IsOrphan(anchorSeen) == ~anchorSeen

\* the place after which the next new step goes, once a new step was placed at pos
CursorAfterInsertAtAnchor(pos) == pos - 1

CursorAfterInsert(pos) == pos

\* the patch steps from the k-th on merged into acc; names are the vertexNames
\* of the workflow the patch is applied to, cursor the place of the last anchor
RECURSIVE MergeFrom(_, _, _, _, _, _)
MergeFrom(k, acc, cursor, anchorSeen, names, patch) ==
    IF k > Len(patch.steps)
    THEN [ok |-> TRUE, steps |-> acc, vertex |-> "", file |-> ""]
    ELSE LET q == patch.steps[k]
             at == IndexOf(acc, q.vertexName)
         IN
         IF q.vertexName \in names
         THEN IF q.delete
              THEN MergeFrom(k + 1, RemoveAt(acc, at), at - 1, TRUE, names, patch)
              ELSE MergeFrom(k + 1, ReplaceAt(acc, at, DeepMerge(acc[at], q)), at, TRUE,
                             names, patch)
         ELSE IF IsOrphan(anchorSeen)
              THEN [ok |-> FALSE, steps |-> <<>>, vertex |-> q.vertexName, file |-> patch.file]
              ELSE MergeFrom(k + 1, InsertAt(acc, cursor, AsStep(q)),
                             CursorAfterInsert(cursor + 1), anchorSeen, names, patch)

\* one patch applied to a workflow
ApplyPatch(steps, patch) == MergeFrom(1, steps, 0, FALSE, VertexNames(steps), patch)

\* the patches of the overlay applied in order; the first error ends the merge
RECURSIVE ApplyPatches(_, _)
ApplyPatches(steps, patches) ==
    IF patches = <<>>
    THEN [ok |-> TRUE, steps |-> steps, vertex |-> "", file |-> ""]
    ELSE LET r == ApplyPatch(steps, Head(patches)) IN
         IF r.ok THEN ApplyPatches(r.steps, Tail(patches)) ELSE r

\* variable substitution over the string arguments of the steps
SubstituteAll(steps, vs) ==
    [i \in 1..Len(steps) |->
        [steps[i] EXCEPT !.args = [k \in DOMAIN steps[i].args |-> Substitute(steps[i].args[k], vs)]]]

(* ---------------------------------------------------------------------- *)
(* WorkflowKustomizer: build                                               *)
(* ---------------------------------------------------------------------- *)

\* the steps the ids of a workflow stand for
Deref(refs) == [i \in 1..Len(refs) |-> heap[refs[i]]]

NoBuild == [status |-> "none", vertex |-> "", file |-> ""]

\* the base workflow a build starts from is the one loaded from the base
\* directory, whatever was built before
BaseOfBuildPrevious(base, previous) == IF previous # <<>> THEN previous ELSE base

BaseOfBuild(base, previous) == base

\* the object a step of the result is stored in: a new one, also for a step
\* that stems from the step baseRef of the base (0: from none)
OutputRefShared(fresh, baseRef) == IF baseRef # 0 THEN baseRef ELSE fresh

OutputRef(fresh, baseRef) == fresh

\* the ids of the steps of a result
OutputRefs(steps) ==
    [j \in 1..Len(steps) |->
        LET at == IndexOf(Deref(baseRefs), steps[j].vertexName) IN
        OutputRef(Len(baseRefs) + j, IF at = 0 THEN 0 ELSE baseRefs[at])]

\* the memory after a build: the objects of the base and those of the result
HeapWith(refs, steps) ==
    [id \in Range(baseRefs) \cup Range(refs) |->
        IF id \in Range(refs) THEN steps[Pos(refs, id)] ELSE heap[id]]

\* kustomizer.build(overlayDir)
Build ==
    /\ builds < MaxBuilds
    /\ LET base == BaseOfBuild(Deref(baseRefs), builtSteps)
           m == ApplyPatches(base, conf.patches)
           out == SubstituteAll(m.steps, conf.vars)
           refs == OutputRefs(out)
           result == IF m.ok THEN [status |-> "ok", vertex |-> "", file |-> ""]
                     ELSE [status |-> "orphan", vertex |-> m.vertex, file |-> m.file]
       IN
        /\ outcome' = result
        /\ rawSteps' = m.steps
        /\ builtSteps' = out
        /\ outRefs' = refs
        /\ heap' = HeapWith(refs, out)
        /\ first' = IF builds = 0 THEN [outcome |-> result, steps |-> out] ELSE first
    /\ builds' = builds + 1
    /\ UNCHANGED <<baseRefs, base0, conf>>
    /\ UNCHANGED <<mailboxVars, interpVars, resolverVars, restVars>>

\* the states a caller writes into a step of a workflow it was given
Overwritten == <<SEnd, SEnd>>

\* the caller changes a step of the workflow the build returned
MutateOutput(j) ==
    /\ j \in 1..Len(outRefs)
    /\ heap[outRefs[j]].states # Overwritten
    /\ heap' = [heap EXCEPT ![outRefs[j]].states = Overwritten]
    /\ UNCHANGED <<baseRefs, base0, conf, outRefs, outcome, rawSteps, builtSteps, first,
                   builds>>
    /\ UNCHANGED <<mailboxVars, interpVars, resolverVars, restVars>>

\* no overlay in use
OverlayIdle ==
    /\ heap = <<>>
    /\ baseRefs = <<>>
    /\ base0 = <<>>
    /\ conf = [patches |-> <<>>, vars |-> <<>>]
    /\ outRefs = <<>>
    /\ outcome = NoBuild
    /\ rawSteps = <<>>
    /\ builtSteps = <<>>
    /\ first = [outcome |-> NoBuild, steps |-> <<>>]
    /\ builds = 0

\* a base workflow loaded and an overlay directory chosen
OverlayInit ==
    /\ base0 \in Bases
    /\ heap = base0
    /\ baseRefs = [i \in 1..Len(base0) |-> i]
    /\ conf \in Configs
    /\ outRefs = <<>>
    /\ outcome = NoBuild
    /\ rawSteps = <<>>
    /\ builtSteps = <<>>
    /\ first = [outcome |-> NoBuild, steps |-> <<>>]
    /\ builds = 0

OverlayNext ==
    \/ Build
    \/ \E j \in 1..(MaxSteps + MaxPatchLen) : MutateOutput(j)

(* ---------------------------------------------------------------------- *)
(* ActorSystem: the registry of actors and the work-stealing pools         *)
(* ---------------------------------------------------------------------- *)

\* the name of the actor the documentation creates first
MyActor == "my-actor"

\* the names the callers create and look up
SysNames == {MyActor, "logger"}

\* what getActor returns when no actor has the name (null)
Absent == 0

\* an actor is registered under the name
Registered(reg, name) == \E e \in reg : e[1] = name

\* the ref registered under the name
RefOf(reg, name) ==
    IF Registered(reg, name) THEN (CHOOSE e \in reg : e[1] = name)[2] ELSE Absent

NamesOf(reg) == {e[1] : e \in reg}

\* a call as it took effect: who made it, on which name, and what it returned
SysEntry(op, name, ref, ok, names, by) ==
    [op |-> op, name |-> name, ref |-> ref, ok |-> ok, names |-> names, by |-> by]

\* the calls made by the clients (terminate's own steps are not among them)
SysCalls == Cardinality({i \in 1..Len(sysLog) : sysLog[i].by = "caller"})

\* the actor's name must be unique within the system
NameFreeAlways(reg, name) == TRUE

NameFree(reg, name) == ~Registered(reg, name)

\* system.actorOf(name, pojo): create the ActorRef and register it, in one call
ActorOf(name) ==
    /\ SysCalls < MaxSysCalls
    /\ IF NameFree(sysActors, name)
       THEN /\ actorRefs' = Append(actorRefs, [name |-> name, alive |-> TRUE])
            /\ sysActors' = sysActors \cup {<<name, Len(actorRefs) + 1>>}
            /\ sysLog' = Append(sysLog, SysEntry("actorOf", name, Len(actorRefs) + 1, TRUE, {}, "caller"))
       ELSE /\ UNCHANGED <<actorRefs, sysActors>>
            /\ sysLog' = Append(sysLog, SysEntry("actorOf", name, Absent, FALSE, {}, "caller"))
    /\ UNCHANGED <<pools, term>>
    /\ UNCHANGED <<mailboxVars, interpVars, resolverVars, overlayVars, schedulerVars,
                   matcherVars, poolVars, callVars, removalVars, renameVars>>

\* system.hasActor(name)
HasActor(name) ==
    /\ SysCalls < MaxSysCalls
    /\ sysLog' = Append(sysLog, SysEntry("hasActor", name, Absent, Registered(sysActors, name), {}, "caller"))
    /\ UNCHANGED <<sysActors, actorRefs, pools, term>>
    /\ UNCHANGED <<mailboxVars, interpVars, resolverVars, overlayVars, schedulerVars,
                   matcherVars, poolVars, callVars, removalVars, renameVars>>

\* system.getActor(name): the ref, or null
GetActor(name) ==
    /\ SysCalls < MaxSysCalls
    /\ sysLog' = Append(sysLog, SysEntry("getActor", name, RefOf(sysActors, name),
                                         Registered(sysActors, name), {}, "caller"))
    /\ UNCHANGED <<sysActors, actorRefs, pools, term>>
    /\ UNCHANGED <<mailboxVars, interpVars, resolverVars, overlayVars, schedulerVars,
                   matcherVars, poolVars, callVars, removalVars, renameVars>>

\* system.listActorNames()
ListActorNames ==
    /\ SysCalls < MaxSysCalls
    /\ sysLog' = Append(sysLog, SysEntry("listActorNames", "", Absent, TRUE, NamesOf(sysActors), "caller"))
    /\ UNCHANGED <<sysActors, actorRefs, pools, term>>
    /\ UNCHANGED <<mailboxVars, interpVars, resolverVars, overlayVars, schedulerVars,
                   matcherVars, poolVars, callVars, removalVars, renameVars>>

\* removeActor unregisters the actor of that name, and no other
WithoutNameAll(reg, name) == {}

WithoutName(reg, name) == {e \in reg : e[1] # name}

\* system.removeActor(name): the ref itself is not closed
RemoveActor(name) ==
    /\ SysCalls < MaxSysCalls
    /\ sysActors' = WithoutName(sysActors, name)
    /\ sysLog' = Append(sysLog, SysEntry("removeActor", name, RefOf(sysActors, name),
                                         Registered(sysActors, name), {}, "caller"))
    /\ UNCHANGED <<actorRefs, pools, term>>
    /\ UNCHANGED <<mailboxVars, interpVars, resolverVars, overlayVars, schedulerVars,
                   matcherVars, poolVars, callVars, removalVars, renameVars>>

\* what close() does to a ref and to the registry it is in
Closed(h) == [actorRefs EXCEPT ![h].alive = FALSE]

Deregistered(h) == sysActors \ {<<actorRefs[h].name, h>>}

\* actorRef.close(), called by a client
CloseRef(h) ==
    /\ SysCalls < MaxSysCalls
    /\ h \in 1..Len(actorRefs)
    /\ actorRefs[h].alive
    /\ actorRefs' = Closed(h)
    /\ sysActors' = Deregistered(h)
    /\ sysLog' = Append(sysLog, SysEntry("close", actorRefs[h].name, h, TRUE, {}, "caller"))
    /\ UNCHANGED <<pools, term>>
    /\ UNCHANGED <<mailboxVars, interpVars, resolverVars, overlayVars, schedulerVars,
                   matcherVars, poolVars, callVars, removalVars, renameVars>>

\* system.addWorkStealingPool(n): the new pool gets the next index
AddWorkStealingPool ==
    /\ SysCalls < MaxSysCalls
    /\ term.pc = "idle"
    /\ pools' = Append(pools, TRUE)
    /\ sysLog' = Append(sysLog, SysEntry("addWorkStealingPool", "", Len(pools) + 1, TRUE, {}, "caller"))
    /\ UNCHANGED <<sysActors, actorRefs, term>>
    /\ UNCHANGED <<mailboxVars, interpVars, resolverVars, overlayVars, schedulerVars,
                   matcherVars, poolVars, callVars, removalVars, renameVars>>

\* system.terminate() is called: first it closes all registered actors
TerminateStart ==
    /\ term.pc = "idle"
    /\ term' = [pc |-> "closing", registered |-> {e[2] : e \in sysActors}]
    /\ sysLog' = Append(sysLog, SysEntry("terminate", "", Absent, TRUE, NamesOf(sysActors), "terminate"))
    /\ UNCHANGED <<sysActors, actorRefs, pools>>
    /\ UNCHANGED <<mailboxVars, interpVars, resolverVars, overlayVars, schedulerVars,
                   matcherVars, poolVars, callVars, removalVars, renameVars>>

\* terminate() closes one of the registered actors
TerminateClose ==
    /\ term.pc = "closing"
    /\ \E e \in sysActors :
        /\ actorRefs' = Closed(e[2])
        /\ sysActors' = Deregistered(e[2])
        /\ sysLog' = Append(sysLog, SysEntry("close", e[1], e[2], TRUE, {}, "terminate"))
    /\ UNCHANGED <<pools, term>>
    /\ UNCHANGED <<mailboxVars, interpVars, resolverVars, overlayVars, schedulerVars,
                   matcherVars, poolVars, callVars, removalVars, renameVars>>

\* terminate() goes on to the pools when no actor is registered any more
PoolsMayStopAtOnce(reg) == TRUE

PoolsMayStop(reg) == reg = {}

\* the pool terminate() shuts down next: the running one of the lowest index
NextPool == CHOOSE i \in 1..Len(pools) : pools[i] /\ \A j \in 1..(i - 1) : ~pools[j]

\* terminate() shuts down one work-stealing pool
TerminateShutdown ==
    /\ term.pc \in {"closing", "pools"}
    /\ term.pc = "closing" => PoolsMayStop(sysActors)
    /\ \E i \in 1..Len(pools) : pools[i]
    /\ pools' = [pools EXCEPT ![NextPool] = FALSE]
    /\ term' = [term EXCEPT !.pc = IF \A i \in 1..Len(pools) : ~pools'[i] THEN "done" ELSE "pools"]
    /\ sysLog' = Append(sysLog, SysEntry("shutdown", "", NextPool, TRUE, {}, "terminate"))
    /\ UNCHANGED <<sysActors, actorRefs>>
    /\ UNCHANGED <<mailboxVars, interpVars, resolverVars, overlayVars, schedulerVars,
                   matcherVars, poolVars, callVars, removalVars, renameVars>>

\* no ActorSystem in use
SystemIdle ==
    /\ sysActors = {}
    /\ actorRefs = <<>>
    /\ pools = <<>>
    /\ term = [pc |-> "idle", registered |-> {}]
    /\ sysLog = <<>>

\* new ActorSystem("my-system"), the default pool at index 0: as constructed,
\* or after system.actorOf("my-actor", new MyActor())
SystemInit ==
    /\ \/ sysActors = {} /\ actorRefs = <<>>
       \/ sysActors = {<<MyActor, 1>>} /\ actorRefs = <<[name |-> MyActor, alive |-> TRUE]>>
    /\ pools = <<TRUE>>
    /\ term = [pc |-> "idle", registered |-> {}]
    /\ sysLog = <<>>


SystemNext ==
    \/ \E name \in SysNames : ActorOf(name)
    \/ \E name \in SysNames : HasActor(name)
    \/ \E name \in SysNames : GetActor(name)
    \/ \E name \in SysNames : RemoveActor(name)
    \/ ListActorNames
    \/ \E h \in 1..Len(actorRefs) : CloseRef(h)
    \/ AddWorkStealingPool
    \/ TerminateStart
    \/ TerminateClose
    \/ TerminateShutdown

(* ---------------------------------------------------------------------- *)
(* ---------------------------------------------------------------------- *)
(* Scheduler: periodic and deferred tasks on the counter actor             *)
(* ---------------------------------------------------------------------- *)

\* how each task was scheduled
TaskKind(t) ==
    CASE t = "health-check"   -> "fixedRate"
      [] t = "memory-cleanup" -> "fixedDelay"
      [] t = "init"           -> "once"
      [] t = RiskyTask        -> "fixedRate"

\* two Schedulers target the same actor
TaskScheduler(t) == IF t = "memory-cleanup" THEN 2 ELSE 1

\* the invocations a task has issued so far
FiredBy(t) == {i \in Ids : issued[i].op = t}

\* all scheduled tasks are executed via ActorRef.ask()
SchedulePathNow(kind) == "now"

SchedulePath(kind) == "queued"

\* scheduleAtFixedRate / scheduleWithFixedDelay / scheduleOnce under the task id
ScheduleTask(t) ==
    /\ tasks[t] = "none"
    /\ tasks' = [tasks EXCEPT ![t] = "scheduled"]
    /\ UNCHANGED <<mailboxVars, interpVars, resolverVars, overlayVars, systemVars,
                   matcherVars, poolVars, callVars, removalVars, renameVars>>

\* scheduler.cancelTask(id)
CancelTask(t) ==
    /\ tasks[t] = "scheduled"
    /\ tasks' = [tasks EXCEPT ![t] = "cancelled"]
    /\ UNCHANGED <<mailboxVars, interpVars, resolverVars, overlayVars, systemVars,
                   matcherVars, poolVars, callVars, removalVars, renameVars>>

\* an exception thrown by the task's action is logged; the task continues to
\* be scheduled
SurvivesFailureNever(t) == \A i \in FiredBy(t) : fut[i] # "failed"

SurvivesFailure(t) == TRUE

\* the time of a task has come: a fixed-rate task fires whatever became of its
\* earlier invocations, a fixed-delay task only after the last one completed,
\* a one-shot task once
Due(t) ==
    /\ tasks[t] = "scheduled"
    /\ SurvivesFailure(t)
    /\ TaskKind(t) = "once" => FiredBy(t) = {}
    /\ TaskKind(t) = "fixedDelay" => \A i \in FiredBy(t) : fut[i] # "pending"

\* the Scheduler's thread invokes the task's action on the actor
Fire(t) ==
    /\ Due(t)
    /\ Submit(t, "ask", SchedulePath(TaskKind(t)))

\* no Scheduler in use
SchedulerIdle == tasks = [t \in AllTasks |-> "none"]

\* the tasks of a Scheduler one of whose tasks throws
RiskyRun == {RiskyTask, "health-check"}

\* that Scheduler at work next to a client of the actor
RiskyNext ==
    \/ \E t \in RiskyRun : ScheduleTask(t)
    \/ \E t \in RiskyRun : CancelTask(t)
    \/ \E t \in RiskyRun : Fire(t)
    \/ Tell("increment")
    \/ StartQueued
    \/ \E id \in DOMAIN inflight : FinishQueued(id)

(* ---------------------------------------------------------------------- *)
(* The state matcher on its own                                            *)
(* ---------------------------------------------------------------------- *)

\* source patterns: "0", "end", "*", "!end", "!0", "!0|1", "0|1", "end|0|7",
\* ">=10", ">5", "<=5", "<5", "==7", ">=end", "<-1"
MatchPatterns ==
    {S0, SEnd, PatAny, PatNotEnd, <<"!", "0">>, <<"!", "0", "|", "1">>, Pat0Or1,
     <<"e", "n", "d", "|", "0", "|", "7">>,
     <<">", "=", "1", "0">>, <<">", "5">>, <<"<", "=", "5">>, <<"<", "5">>,
     <<"=", "=", "7">>, <<">", "=", "e", "n", "d">>, <<"<", "-", "1">>}

\* current states: "0", "1", "end", "5", "7", "07", "10", "11", "-3", "*",
\* "!end", "0|1", ">=10", "==7"
MatchStates ==
    {S0, S1, SEnd, <<"5">>, <<"7">>, <<"0", "7">>, <<"1", "0">>, <<"1", "1">>,
     <<"-", "3">>, PatAny, PatNotEnd, Pat0Or1, <<">", "=", "1", "0">>, <<"=", "=", "7">>}

\* the interpreter asks whether the pattern of a step matches the state
MatchCall ==
    /\ mResult = "none"
    /\ mResult' = IF Matches(mPattern, mState) THEN "yes" ELSE "no"
    /\ UNCHANGED <<mPattern, mState>>
    /\ UNCHANGED <<mailboxVars, interpVars, resolverVars, overlayVars, systemVars,
                   schedulerVars, poolVars, callVars, removalVars, renameVars>>

\* the matcher is not asked anything
MatcherIdle == mPattern = <<>> /\ mState = <<>> /\ mResult = "none"

\* a pattern and a state are at hand
MatcherInit == mPattern \in MatchPatterns /\ mState \in MatchStates /\ mResult = "none"

MatcherNext == MatchCall

(* ---------------------------------------------------------------------- *)
(* tell / ask with a work-stealing pool                                    *)
(* ---------------------------------------------------------------------- *)

\* operations handed to tell(action, pool) and ask(action, pool)
PoolTellOps == {"increment"}

PoolAskOps == {"getValue"}

\* with a pool the operation runs on the pool's threads instead of the actor's
\* virtual thread
OffloadedNever(mode) == FALSE

Offloaded(mode) == mode = "pool"

\* tell(action, pool) / ask(action, pool): record the call, hand out its future
\* and pass the body to the pool
SubmitToPool(op, kind) ==
    /\ Calls < MaxOps
    /\ LET id == Len(issued) + 1 IN
        /\ issued' = Append(issued, [op |-> op, kind |-> kind, mode |-> "pool", during |-> 0])
        /\ fut' = Append(fut, "pending")
        /\ res' = Append(res, 0)
        /\ saw' = Append(saw, 0)
        /\ overlap' = Append(overlap, FALSE)
        /\ IF Offloaded("pool")
           THEN /\ onPool' = onPool \cup {id}
                /\ queue' = queue
           ELSE /\ queue' = Append(queue, id)
                /\ onPool' = onPool
    /\ UNCHANGED <<value, inflight, nowPending, workerUp, alive, registry, started, execLog,
                   discarded, lastWriter, cleared, poolsUp>>
    /\ UNCHANGED <<interpVars, resolverVars, overlayVars, systemVars, schedulerVars,
                   matcherVars, callVars, removalVars, renameVars>>

\* a thread of the pool runs the body
RunOnPool(id) ==
    /\ id \in onPool
    /\ RunBody(id)
    /\ onPool' = onPool \ {id}
    /\ UNCHANGED <<queue, issued, inflight, nowPending, workerUp, alive, registry, started,
                   discarded, cleared, poolsUp>>
    /\ UNCHANGED <<interpVars, resolverVars, overlayVars, systemVars, schedulerVars,
                   matcherVars, callVars, removalVars, renameVars>>

\* nothing handed to a pool
PoolIdle == onPool = {}

\* a client that offloads some of its calls
PoolNext ==
    \/ \E op \in PoolTellOps : SubmitToPool(op, "tell")
    \/ \E op \in PoolAskOps : SubmitToPool(op, "ask")
    \/ \E id \in onPool : RunOnPool(id)
    \/ \E op \in TellOps : Tell(op)
    \/ \E op \in AskOps : Ask(op)
    \/ StartQueued
    \/ \E id \in DOMAIN inflight : FinishQueued(id)
    \/ Tick

(* ---------------------------------------------------------------------- *)
(* ActorSystem.removeActor on the counter actor                            *)
(* ---------------------------------------------------------------------- *)

\* removeActor does not close the actor
AliveAfterRemoveClosed(a) == FALSE

AliveAfterRemove(a) == a

\* system.removeActor("counter"): the actor is unregistered
RemoveCounter ==
    /\ ~removedAt.done
    /\ registry' = registry \ {ActorName}
    /\ alive' = AliveAfterRemove(alive)
    /\ removedAt' = [done |-> TRUE, queued |-> Range(queue), alive |-> alive]
    /\ UNCHANGED <<value, queue, issued, fut, res, inflight, nowPending, workerUp,
                   started, execLog, saw, overlap, discarded, lastWriter, cleared,
                   poolsUp>>
    /\ UNCHANGED <<interpVars, resolverVars, overlayVars, systemVars, schedulerVars,
                   matcherVars, poolVars, callVars, renameVars>>

\* removeActor not called
RemovalIdle == removedAt = [done |-> FALSE, queued |-> {}, alive |-> FALSE]

\* clients of the counter, one of which removes it from the ActorSystem
RemovalNext ==
    \/ \E op \in TellOps : Tell(op)
    \/ \E op \in AskOps : Ask(op)
    \/ StartQueued
    \/ \E id \in DOMAIN inflight : FinishQueued(id)
    \/ Tick
    \/ RemoveCounter
    \/ Close
    \/ Terminate

(* ---------------------------------------------------------------------- *)
(* WorkflowKustomizer: name transformations                                *)
(* ---------------------------------------------------------------------- *)

\* file names "deploy.yaml", "sub.yaml", "main.yaml" and the extension ".yaml"
FileDeploy == <<"d", "e", "p", "l", "o", "y", ".", "y", "a", "m", "l">>

FileSub == <<"s", "u", "b", ".", "y", "a", "m", "l">>

FileMain == <<"m", "a", "i", "n", ".", "y", "a", "m", "l">>

YamlExt == <<".", "y", "a", "m", "l">>

WorkflowFiles == {FileDeploy, FileSub, FileMain}

\* the workflow names in these files: "deploy-workflow", "sub", "main"
NameIn(file) ==
    CASE file = FileDeploy -> <<"d", "e", "p", "l", "o", "y", "-", "w", "o", "r", "k", "f", "l", "o", "w">>
      [] file = FileSub    -> <<"s", "u", "b">>
      [] file = FileMain   -> <<"m", "a", "i", "n">>

\* namePrefix: none, "prod-"; nameSuffix: none, "-v2"
NoAffix == <<>>

PrefixProd == <<"p", "r", "o", "d", "-">>

SuffixV2 == <<"-", "v", "2">>

RenameConfs ==
    {[prefix |-> pre, suffix |-> suf] : pre \in {NoAffix, PrefixProd}, suf \in {NoAffix, SuffixV2}}

\* a file name without its extension, and its extension
Stem(file) ==
    IF EndsWith(file, YamlExt) THEN SubSeq(file, 1, Len(file) - Len(YamlExt)) ELSE file

ExtOf(file) == IF EndsWith(file, YamlExt) THEN YamlExt ELSE <<>>

\* workflow name deploy-workflow becomes prod-deploy-workflow-v2
RenamedName(name, c) == c.prefix \o name \o c.suffix

\* file name deploy.yaml becomes prod-deploy-v2.yaml
RenamedFile(file, c) == c.prefix \o Stem(file) \o c.suffix \o ExtOf(file)

\* references to workflows in runWorkflow and call actions are updated
RenamedRefKept(ref, c) == ref

RenamedRef(ref, c) == [ref EXCEPT !.file = RenamedFile(@, c)]

\* the name transformation of one workflow
RenameWorkflow(w, c) ==
    [file |-> RenamedFile(w.file, c),
     name |-> RenamedName(w.name, c),
     refs |-> [i \in DOMAIN w.refs |-> RenamedRef(w.refs[i], c)]]

\* the call / runWorkflow actions of a workflow that refer to the files of
\* `targets`: a workflow runs itself again with runWorkflow, another one with call
RECURSIVE RefsTo(_, _)
RefsTo(file, targets) ==
    IF targets = {} THEN <<>>
    ELSE LET t == CHOOSE x \in targets : \A y \in targets : Len(x) <= Len(y) IN
         <<[method |-> IF t = file THEN "runWorkflow" ELSE "call", file |-> t]>>
            \o RefsTo(file, targets \ {t})

\* the overlays: some of the files, each workflow referring to some of them
Overlays ==
    UNION { { {[file |-> f, name |-> NameIn(f), refs |-> RefsTo(f, to[f])] : f \in files} :
                to \in [files -> SUBSET files] } :
            files \in SUBSET WorkflowFiles \ {{}} }

\* an overlay and its overlay-conf.yaml are read
LoadOverlay ==
    /\ rnIn = {}
    /\ rnIn' \in Overlays
    /\ rnConf' \in RenameConfs
    /\ rnOut' = {}
    /\ UNCHANGED <<mailboxVars, interpVars, resolverVars, overlayVars, systemVars,
                   schedulerVars, matcherVars, poolVars, callVars, removalVars>>

\* the build applies namePrefix and nameSuffix
BuildRenamed ==
    /\ rnIn # {}
    /\ rnOut = {}
    /\ rnOut' = {RenameWorkflow(w, rnConf) : w \in rnIn}
    /\ UNCHANGED <<rnIn, rnConf>>
    /\ UNCHANGED <<mailboxVars, interpVars, resolverVars, overlayVars, systemVars,
                   schedulerVars, matcherVars, poolVars, callVars, removalVars>>

\* no overlay read
RenameIdle ==
    /\ rnIn = {}
    /\ rnConf = [prefix |-> NoAffix, suffix |-> NoAffix]
    /\ rnOut = {}

RenameNext == LoadOverlay \/ BuildRenamed

(* ---------------------------------------------------------------------- *)
(* Interpreter: the call action and its child interpreter                  *)
(* ---------------------------------------------------------------------- *)

\* actor paths of a sub-workflow: "../w1", "../w2", the workers next to the child
PathSiblingW1 == <<".", ".", "/", "w", "1">>

PathSiblingW2 == <<".", ".", "/", "w", "2">>

\* the sub-workflow files
SubFiles == {"sub-workflow.yaml", "sub-check.yaml", "sub-loop.yaml"}

\* what loading a sub-workflow file gives: one that ends at once, one that
\* marks w1 and ends only if w2 is flagged, one that never ends
SubWorkflow(file) ==
    CASE file = "sub-workflow.yaml" ->
            <<Step(S0, SEnd, <<Act(PathThis, "doNothing")>>)>>
      [] file = "sub-check.yaml" ->
            <<Step(S0, S1, <<Act(PathSiblingW1, "mark")>>),
              Step(S1, SEnd, <<Act(PathSiblingW2, "check")>>)>>
      [] file = "sub-loop.yaml" ->
            <<Step(PatNotEnd, S0, <<Act(PathThis, "doNothing")>>)>>

\* the action "actor: this, method: call, arguments: [file]"
CallAct(file) == [actor |-> PathThis, method |-> "call", arguments |-> <<file>>]

\* the workflows of an interpreter that calls sub-workflows
CallTables ==
    { <<Step(S0, S1, <<CallAct(f), Act(PathW2, "mark")>>),
        Step(Pat0Or1, SEnd, <<CallAct(g)>>)>> : f \in SubFiles, g \in SubFiles }

\* one action of a step of the interpreter `origin`
RunActionFrom(origin, action, fl) ==
    LET actors == ResolveActorPath(origin, action.actor)
        r == CallAll(actors, action.method, fl)
        ok == ResolvedEnough(actors) /\ AllSucceeded(r.results)
    IN [ok |-> ok, flags |-> r.flags]

\* the actions of a step of the child, up to the first one that fails
RECURSIVE ChildActions(_, _)
ChildActions(actions, fl) ==
    IF actions = <<>>
    THEN [ok |-> TRUE, flags |-> fl]
    ELSE LET r == RunActionFrom(NChild, Head(actions), fl) IN
         IF r.ok THEN ChildActions(Tail(actions), r.flags)
         ELSE [ok |-> FALSE, flags |-> r.flags]

\* one transition attempt of the child over its own table
RECURSIVE ChildScan(_, _, _, _)
ChildScan(tbl, i, cur, fl) ==
    IF i > Len(tbl)
    THEN [ok |-> FALSE, state |-> cur, flags |-> fl]
    ELSE IF ~Matches(tbl[i].src, cur)
    THEN ChildScan(tbl, i + 1, cur, fl)
    ELSE LET r == ChildActions(tbl[i].actions, fl) IN
         IF r.ok
         THEN [ok |-> TRUE, state |-> tbl[i].dst, flags |-> r.flags]
         ELSE ChildScan(tbl, i + 1, cur, r.flags)

\* the child's runUntilEnd after n attempts
RECURSIVE ChildRunUntilEnd(_, _, _, _)
ChildRunUntilEnd(tbl, cur, fl, n) ==
    IF ReachedEnd(cur)
    THEN [ok |-> TRUE, why |-> "end", state |-> cur, flags |-> fl]
    ELSE IF LimitReached(n, MaxIter)
    THEN [ok |-> LimitResultOk, why |-> LimitMessage, state |-> cur, flags |-> fl]
    ELSE LET r == ChildScan(tbl, 1, cur, fl) IN
         IF StopsOnFailure(r.ok)
         THEN [ok |-> FALSE, why |-> "attempt", state |-> r.state, flags |-> r.flags]
         ELSE ChildRunUntilEnd(tbl, r.state, r.flags, n + 1)

\* no child interpreter
NoChild == [pc |-> "none", file |-> "", table |-> <<>>, state |-> S0,
            ok |-> FALSE, why |-> "none"]

\* no transition attempt in progress
NotScanning == [step |-> 0, action |-> 0]

Scanning == scanAt.step > 0

\* the step and the action the attempt in progress stands at
CurStep == table[scanAt.step]

CurAction == CurStep.actions[scanAt.action]

\* the attempt stands at an action of a step that matches the current state
AtAction ==
    /\ Scanning
    /\ scanAt.step <= Len(table)
    /\ Matches(CurStep.src, currentState)

\* the registry once the child of a call is removed from it
UnregisterChildNever(reg) == reg

UnregisterChild(reg) == reg \ {NChild}

\* the children of the caller once the child of a call is discarded
ForgetChild(names) ==
    LET Other(n) == n # NChild IN SelectSeq(names, Other)

\* the result of the call action: a success only if the child's run reached "end"
CallSucceededAlways(c) == TRUE

CallSucceeded(c) == c.ok /\ ReachedEnd(c.state)

\* interpreter.execCode(), entry: the scan starts at the first step
ExecCodeBegin ==
    /\ ~Scanning
    /\ child.pc = "none"
    /\ scanAt' = [step |-> 1, action |-> 1]
    /\ attemptFrom' = currentState
    /\ trace' = <<>>
    /\ actLog' = <<>>
    /\ UNCHANGED <<iiActors, parentName, childNames, flags, table, currentState,
                   currentStepIndex, pc, maxIter, attempts, lastResult, reached>>
    /\ UNCHANGED <<child, lastCall>>
    /\ UNCHANGED outsideCall

\* a step whose pattern does not match the current state is passed over
ScanSkip ==
    /\ Scanning
    /\ scanAt.step <= Len(table)
    /\ ~Matches(CurStep.src, currentState)
    /\ scanAt' = [step |-> scanAt.step + 1, action |-> 1]
    /\ trace' = Append(trace, "skip")
    /\ UNCHANGED <<iiActors, parentName, childNames, flags, table, currentState,
                   currentStepIndex, pc, maxIter, attempts, lastResult, attemptFrom,
                   actLog, reached>>
    /\ UNCHANGED <<child, lastCall>>
    /\ UNCHANGED outsideCall

\* what the interpreter does once an action of the step it stands at has
\* ended: the next action, the transition, or the next step
ActionDone(ok, entry, fl) ==
    /\ actLog' = Append(actLog, entry)
    /\ flags' = fl
    /\ IF ok /\ scanAt.action < Len(CurStep.actions)
       THEN /\ scanAt' = [scanAt EXCEPT !.action = @ + 1]
            /\ UNCHANGED <<currentState, currentStepIndex, trace, lastResult, reached>>
       ELSE IF ok
       THEN /\ scanAt' = NotScanning
            /\ currentState' = StateAfterStep(TRUE, currentState, CurStep.dst)
            /\ currentStepIndex' = scanAt.step
            /\ trace' = Append(trace, "ok")
            /\ lastResult' = [by |-> "execCode", ok |-> TRUE, why |-> "step",
                              state |-> CurStep.dst]
            /\ reached' = CurStep.dst
       ELSE /\ scanAt' = [step |-> NextAfterFailed(scanAt.step), action |-> 1]
            /\ currentState' = StateAfterStep(FALSE, currentState, CurStep.dst)
            /\ trace' = Append(trace, "fail")
            /\ UNCHANGED <<currentStepIndex, lastResult, reached>>
    /\ UNCHANGED <<table, pc, maxIter, attempts, attemptFrom>>
    /\ UNCHANGED outsideCall

\* an action that is not a call
ScanAction ==
    /\ AtAction
    /\ CurAction.method # "call"
    /\ LET r == RunAction(CurAction, flags) IN ActionDone(r.ok, r.entry, r.flags)
    /\ UNCHANGED <<iiActors, parentName, childNames, child, lastCall>>

\* call, 1 and 2: the child interpreter is created under the caller and the
\* sub-workflow is loaded into it
CallCreate ==
    /\ AtAction
    /\ CurAction.method = "call"
    /\ child.pc = "none"
    /\ LET file == CurAction.arguments[1] IN
        /\ child' = [pc |-> "loaded", file |-> file, table |-> SubWorkflow(file),
                     state |-> S0, ok |-> FALSE, why |-> "none"]
        /\ lastCall' = [file |-> file, registered |-> iiActors,
                        children |-> childNames[NMain], during |-> {},
                        ok |-> FALSE, why |-> "none", returned |-> FALSE]
    /\ iiActors' = iiActors \cup {NChild}
    /\ parentName' = (NChild :> NMain) @@ parentName
    /\ childNames' = (NChild :> <<>>) @@ [childNames EXCEPT ![NMain] = Append(@, NChild)]
    /\ UNCHANGED <<flags, table, currentState, currentStepIndex, pc, maxIter, attempts,
                   lastResult, attemptFrom, trace, actLog, reached>>
    /\ UNCHANGED scanAt
    /\ UNCHANGED outsideCall

\* call, 3: the child runs its workflow until "end"
CallRun ==
    /\ child.pc = "loaded"
    /\ LET r == ChildRunUntilEnd(child.table, child.state, flags, 0) IN
        /\ child' = [child EXCEPT !.pc = "done", !.state = r.state, !.ok = r.ok,
                                  !.why = r.why]
        /\ flags' = r.flags
    /\ lastCall' = [lastCall EXCEPT !.during = iiActors]
    /\ UNCHANGED <<iiActors, parentName, childNames, table, currentState,
                   currentStepIndex, pc, maxIter, attempts, lastResult, attemptFrom,
                   trace, actLog, reached>>
    /\ UNCHANGED scanAt
    /\ UNCHANGED outsideCall

\* call, 4: the child is removed, and the call action ends with its result
CallRemove ==
    /\ child.pc = "done"
    /\ iiActors' = UnregisterChild(iiActors)
    /\ parentName' = [n \in DOMAIN parentName \ {NChild} |-> parentName[n]]
    /\ childNames' = [n \in DOMAIN childNames \ {NChild} |->
                         IF n = NMain THEN ForgetChild(childNames[n]) ELSE childNames[n]]
    /\ child' = NoChild
    /\ lastCall' = [lastCall EXCEPT !.ok = CallSucceeded(child), !.why = child.why,
                                    !.returned = TRUE]
    /\ ActionDone(CallSucceeded(child),
                  [actor |-> PathThis, method |-> "call", resolved |-> <<NMain>>,
                   results |-> <<CallSucceeded(child)>>, ok |-> CallSucceeded(child)],
                  flags)

\* no step is left: the attempt has failed
ScanExhausted ==
    /\ Scanning
    /\ scanAt.step > Len(table)
    /\ scanAt' = NotScanning
    /\ lastResult' = [by |-> "execCode", ok |-> FALSE, why |-> "attempt",
                      state |-> currentState]
    /\ UNCHANGED <<iiActors, parentName, childNames, flags, table, currentState,
                   currentStepIndex, pc, maxIter, attempts, attemptFrom, trace, actLog,
                   reached>>
    /\ UNCHANGED <<child, lastCall>>
    /\ UNCHANGED outsideCall

\* no call made, no attempt in progress
CallIdle ==
    /\ scanAt = NotScanning
    /\ child = NoChild
    /\ lastCall = [file |-> "", registered |-> {}, children |-> <<>>, during |-> {},
                   ok |-> FALSE, why |-> "none", returned |-> FALSE]

\* the interpreter "main" with the workers "w1" and "w2", a workflow that
\* calls sub-workflows loaded, in the initial state "0"
CallInit ==
    /\ iiActors = {NMain, NW1, NW2}
    /\ parentName = (NMain :> NoName) @@ (NW1 :> NMain) @@ (NW2 :> NMain)
    /\ childNames = (NMain :> <<NW1, NW2>>) @@ (NW1 :> <<>>) @@ (NW2 :> <<>>)
    /\ flags \in [Workers -> BOOLEAN]
    /\ table \in CallTables
    /\ currentState = S0
    /\ currentStepIndex = 0
    /\ pc = "idle"
    /\ maxIter = 0
    /\ attempts = 0
    /\ lastResult = [by |-> "none", ok |-> FALSE, why |-> "none", state |-> S0]
    /\ attemptFrom = S0
    /\ trace = <<>>
    /\ actLog = <<>>
    /\ reached = S0
    /\ CallIdle

CallNext ==
    \/ ExecCodeBegin
    \/ ScanSkip
    \/ ScanAction
    \/ CallCreate
    \/ CallRun
    \/ CallRemove
    \/ ScanExhausted
    \/ \E w \in Workers : Toggle(w)

RestIdle == SystemIdle /\ SchedulerIdle /\ MatcherIdle /\ PoolIdle /\ CallIdle /\ RemovalIdle /\ RenameIdle

\* the Schedulers at work next to a client of the actor
SchedulerNext ==
    \/ \E t \in TaskOps : ScheduleTask(t)
    \/ \E t \in TaskOps : CancelTask(t)
    \/ \E t \in TaskOps : Fire(t)
    \/ Tell("slowSetValue100")
    \/ TellNow("increment")
    \/ StartQueued
    \/ \E id \in DOMAIN inflight : FinishQueued(id)
    \/ \E id \in nowPending : RunNow(id)
    \/ Tick

(* Specification of the mailbox                                            *)
(* ---------------------------------------------------------------------- *)

\* system.actorOf("counter", new Counter())
MailboxInit ==
    /\ value = InitialValue
    /\ queue = <<>>
    /\ issued = <<>>
    /\ fut = <<>>
    /\ res = <<>>
    /\ inflight = <<>>
    /\ nowPending = {}
    /\ workerUp = TRUE
    /\ alive = TRUE
    /\ registry = {ActorName}
    /\ started = <<>>
    /\ execLog = <<>>
    /\ saw = <<>>
    /\ overlap = <<>>
    /\ discarded = {}
    /\ lastWriter = 0
    /\ cleared = <<>>
    /\ poolsUp = TRUE

Init == MailboxInit /\ InterpIdle /\ ResolverIdle /\ OverlayIdle /\ RestIdle

Next ==
    \/ \E op \in TellOps : Tell(op)
    \/ \E op \in AskOps : Ask(op)
    \/ \E op \in TellNowOps : TellNow(op)
    \/ \E op \in AskNowOps : AskNow(op)
    \/ StartQueued
    \/ \E id \in DOMAIN inflight : FinishQueued(id)
    \/ \E id \in nowPending : RunNow(id)
    \/ Tick
    \/ Close
    \/ ClearPendingMessages
    \/ Terminate

Spec == Init /\ [][Next]_vars

\* an actor that is never closed and whose pending messages are never cleared
OpenNext ==
    \/ \E op \in TellOps : Tell(op)
    \/ \E op \in AskOps : Ask(op)
    \/ \E op \in TellNowOps : TellNow(op)
    \/ \E op \in AskNowOps : AskNow(op)
    \/ StartQueued
    \/ \E id \in DOMAIN inflight : FinishQueued(id)
    \/ \E id \in nowPending : RunNow(id)
    \/ Tick

\* the actor's virtual thread loops on the queue for as long as the actor is
\* open, the virtual thread of an immediate call runs, sleeping bodies wake
\* up and every body returns or throws
WorkerFairness ==
    /\ WF_vars(StartQueued)
    /\ WF_vars(\E id \in DOMAIN inflight : FinishQueued(id))
    /\ WF_vars(\E id \in nowPending : RunNow(id))
    /\ WF_vars(Tick)

\* the specification of the open actor under a fair scheduling of its threads
SpecOpen == Init /\ [][OpenNext]_vars /\ WorkerFairness

\* the interpreter at work, no caller on the counter's mailbox
InitInterp == MailboxInit /\ InterpInit /\ ResolverIdle /\ OverlayIdle /\ RestIdle

\* the specification of the workflow interpreter
SpecInterp == InitInterp /\ [][InterpNext]_vars

\* callers of resolveActorPath on a wired hierarchy
InitResolver ==
    MailboxInit /\ WorkflowIdle /\ HierarchyInit /\ ResolverIdle /\ OverlayIdle /\ RestIdle

\* the specification of the path resolver
SpecResolver == InitResolver /\ [][ResolverNext]_vars

\* builds of an overlay over a loaded base workflow
\* callers at work on an ActorSystem
InitSystem ==
    /\ MailboxInit /\ InterpIdle /\ ResolverIdle /\ OverlayIdle
    /\ SystemInit /\ SchedulerIdle /\ MatcherIdle /\ PoolIdle /\ CallIdle /\ RemovalIdle /\ RenameIdle

SpecSystem == InitSystem /\ [][SystemNext]_vars

InitScheduler == MailboxInit /\ InterpIdle /\ ResolverIdle /\ OverlayIdle /\ RestIdle

SpecScheduler == InitScheduler /\ [][SchedulerNext]_vars

InitMatcher ==
    /\ MailboxInit /\ InterpIdle /\ ResolverIdle /\ OverlayIdle
    /\ SystemIdle /\ SchedulerIdle /\ MatcherInit /\ PoolIdle /\ CallIdle /\ RemovalIdle /\ RenameIdle

SpecMatcher == InitMatcher /\ [][MatcherNext]_vars

\* an interpreter whose workflow calls sub-workflows
InitCall ==
    /\ MailboxInit /\ CallInit /\ ResolverIdle /\ OverlayIdle
    /\ SystemIdle /\ SchedulerIdle /\ MatcherIdle /\ PoolIdle /\ RemovalIdle /\ RenameIdle

SpecCall == InitCall /\ [][CallNext]_vars

SpecRemoval == Init /\ [][RemovalNext]_vars

SpecRisky == InitScheduler /\ [][RiskyNext]_vars

SpecRename == Init /\ [][RenameNext]_vars

InitPool == MailboxInit /\ InterpIdle /\ ResolverIdle /\ OverlayIdle /\ RestIdle

SpecPool == InitPool /\ [][PoolNext]_vars

InitOverlay == MailboxInit /\ InterpIdle /\ ResolverIdle /\ OverlayInit /\ RestIdle

\* the specification of the overlay merge
SpecOverlay == InitOverlay /\ [][OverlayNext]_vars

(* ---------------------------------------------------------------------- *)
(* Properties of the mailbox                                               *)
(* ---------------------------------------------------------------------- *)

\* the ids 1..n as a sequence
IdSeq == [i \in 1..Len(issued) |-> i]

IsQueued(i) == issued[i].mode = "queued"

\* the tell/ask calls that were not discarded, in issuance order
LiveQueued ==
    LET Keep(i) == IsQueued(i) /\ i \notin discarded IN SelectSeq(IdSeq, Keep)

\* the tell/ask calls whose bodies have run, in the order they ran
ExecQueued == SelectSeq(execLog, IsQueued)

\* the Counter after the bodies of the calls 1..k ran one after another
RECURSIVE ValueAfter(_)
ValueAfter(k) == IF k = 0 THEN InitialValue ELSE Effect(issued[k].op, ValueAfter(k - 1)).value

\* C1: tell/ask calls run against the Counter in issuance order, each after
\* all the tell/ask calls issued before it, and an ask returns the value that
\* the calls before it produced: setValue(10), increment, getValue gives 11.
C1_Fifo ==
    /\ started \o queue = LiveQueued
    /\ Len(ExecQueued) <= Len(started)
    /\ ExecQueued = SubSeq(started, 1, Len(ExecQueued))
    /\ \A i \in Range(execLog) : \A j \in 1..(i - 1) :
          (IsQueued(i) /\ IsQueued(j) /\ j \notin discarded)
              => (j \in Range(execLog) /\ Pos(execLog, j) < Pos(execLog, i))
    /\ \A i \in Ids :
          (/\ \A j \in 1..i : IsQueued(j) /\ j \notin discarded
           /\ \A j \in Range(execLog) : Pos(execLog, j) < Pos(execLog, i) => IsQueued(j)
           /\ issued[i].op = "getValue"
           /\ fut[i] = "done")
              => res[i] = ValueAfter(i - 1)
    /\ (/\ Len(issued) = 3
        /\ \A j \in 1..3 : IsQueued(j) /\ j \notin discarded
        /\ issued[1].op = "setValue10"
        /\ issued[2].op = "increment"
        /\ issued[3].op = "getValue"
        /\ fut[3] = "done")
          => res[3] = 11

\* tell(setValue(10)), tell(increment), ask(getValue) have all completed
C1_Witness ==
    /\ Len(issued) = 3
    /\ issued[1] = [op |-> "setValue10", kind |-> "tell", mode |-> "queued", during |-> 0]
    /\ issued[2] = [op |-> "increment", kind |-> "tell", mode |-> "queued", during |-> 0]
    /\ issued[3] = [op |-> "getValue", kind |-> "ask", mode |-> "queued", during |-> 0]
    /\ fut[3] = "done"
    /\ res[3] = 11

\* C2: at most one tell/ask message of the actor is being executed at any
\* time, however many messages wait in the queue.
C2_OneAtATime == Cardinality(DOMAIN inflight) <= 1

\* one message is in flight while two more wait in the queue
C2_Witness == Cardinality(DOMAIN inflight) = 1 /\ Len(queue) = 2

\* C3: an exception thrown by the body of a tell/ask is found in the future
\* (the future is pending when the call returns and failed once the body has
\* run), and the worker loop goes on: it is running as long as the actor is
\* alive, and the calls issued after the failing one run in order.
C3_ExceptionCaptured ==
    /\ \A i \in Ids :
          issued[i].op = "throwing" =>
              fut[i] = (IF i \in Range(execLog) THEN "failed" ELSE "pending")
    /\ workerUp = alive
    /\ started \o queue = LiveQueued
    /\ (alive /\ queue # <<>> /\ DOMAIN inflight = {}) => ENABLED StartQueued

\* a tell whose body threw has a failed future, and a call queued after it
\* has run all the same
C3_Witness ==
    \E i, j \in Ids :
        /\ i < j
        /\ IsQueued(i) /\ issued[i].op = "throwing" /\ fut[i] = "failed"
        /\ IsQueued(j) /\ fut[j] = "done"
        /\ Pos(execLog, i) < Pos(execLog, j)

\* C4: a tellNow/askNow issued while a queued operation is in its sleep runs
\* while that operation is still in flight and does not observe its write;
\* an ask queued behind the slow operation runs after it and, when the slow
\* operation's write is the last one before it, returns 100.
C4_NowBypassesQueue ==
    /\ \A i \in Ids :
          (issued[i].during # 0 /\ fut[i] # "pending")
              => (overlap[i] /\ saw[i] # issued[i].during)
    /\ \A i \in nowPending : i \notin Range(queue) /\ i \notin Range(started)
    /\ \A q, g \in Ids :
          (/\ q < g
           /\ IsQueued(q) /\ issued[q].op = "slowSetValue100" /\ q \notin discarded
           /\ IsQueued(g) /\ issued[g].op = "getValue" /\ fut[g] = "done")
              => (/\ fut[q] = "done"
                  /\ Pos(execLog, q) < Pos(execLog, g)
                  /\ (saw[g] = q => res[g] = HundredValue))

\* the slow tell, then an ask and an askNow: the askNow returned the value of
\* before the slow operation, the ask 100
C4_Witness ==
    /\ Len(issued) = 3
    /\ issued[1].op = "slowSetValue100" /\ issued[1].kind = "tell"
    /\ issued[2].kind = "ask" /\ issued[3].kind = "askNow"
    /\ issued[3].during = 1
    /\ Pos(execLog, 3) < Pos(execLog, 1)
    /\ fut[2] = "done" /\ fut[3] = "done"
    /\ res[3] = InitialValue
    /\ res[2] = HundredValue

\* C5: once closed, the actor is not alive, its worker loop is stopped, its
\* name is not in the registry and no discarded message has been or is ever
\* taken by the worker; close empties the queue, and after close the worker
\* takes no message.
C5_Close ==
    /\ [](~alive => (/\ ~workerUp
                     /\ ActorName \notin registry
                     /\ discarded \cap Range(started) = {}
                     /\ discarded \cap Range(execLog) = {}))
    /\ [][(alive /\ ~alive') =>
              (queue' = <<>> /\ discarded' = discarded \cup Range(queue))]_vars
    /\ [][~alive => started' = started]_vars

\* the actor was closed with a message waiting, which did not run
C5_Witness ==
    /\ ~alive
    /\ discarded # {}
    /\ ActorName \notin registry
    /\ DOMAIN inflight = {}

\* a transition attempt has been made
Attempted == trace # <<>>

\* the outcome of the last step the attempt looked at
LastTried == trace[Len(trace)]

\* C6: a transition attempt looks at the steps in definition order; a step whose
\* pattern does not match is passed over; a matching step whose actions fail
\* does not advance the state and the scan goes on with the next step; the first
\* matching step whose actions all succeed is committed: currentState becomes
\* its target state and currentStepIndex its index, and no later step is tried
C6_FirstMatchingStep ==
    Attempted =>
        /\ Len(trace) <= Len(table)
        /\ \A k \in 1..Len(trace) :
            /\ trace[k] = "skip" <=> ~Matches(table[k].src, attemptFrom)
            /\ trace[k] = "ok" => k = Len(trace)
            /\ trace[k] = "fail" /\ k < Len(table) => Len(trace) > k
        /\ LastTried = "ok" =>
            /\ currentState = table[Len(trace)].dst
            /\ currentStepIndex = Len(trace)

\* two steps with source "1": the first fails, the second succeeds, the state
\* is the second one's target
C6_Witness ==
    /\ attemptFrom = S1
    /\ trace = <<"skip", "fail", "ok">>
    /\ table[2].src = S1
    /\ table[3].src = S1
    /\ currentState = table[3].dst
    /\ currentStepIndex = 3

\* C7: an attempt in which no step both matches and succeeds has gone through
\* the whole table, reports failure and leaves currentState as it was
C7_ExhaustedTable ==
    (Attempted /\ LastTried # "ok") =>
        /\ Len(trace) = Len(table)
        /\ currentState = attemptFrom
        /\ ~lastResult.ok
        /\ lastResult.why = "attempt"
        /\ lastResult.state = attemptFrom

C7_Witness ==
    /\ Attempted
    /\ LastTried # "ok"
    /\ \E k \in 1..Len(trace) : trace[k] = "fail" /\ table[k].dst # attemptFrom
    /\ currentState = attemptFrom
    /\ ~lastResult.ok

\* a call of runUntilEnd has returned
RunFinished == lastResult.by = "runUntilEnd" /\ pc = "idle"

\* C8: runUntilEnd makes at most maxIterations attempts, also on a workflow that
\* cycles: the loop is never at work with maxIterations attempts made, and every
\* pass through the loop that does not return counts one attempt; a run that
\* returns without the state being "end" reports failure
C8_BoundedRun ==
    /\ [](attempts <= maxIter)
    /\ [](pc = "running" => attempts < maxIter)
    /\ []((RunFinished /\ lastResult.state # SEnd) => ~lastResult.ok)
    /\ [][(pc = "running" /\ pc' = "running" /\ flags' = flags) =>
                attempts' = attempts + 1]_vars

\* a cycling workflow stopped by the iteration limit
C8_Witness ==
    /\ RunFinished
    /\ lastResult.why = "limit"
    /\ attempts = maxIter
    /\ attempts > 1
    /\ lastResult.state # SEnd
    /\ ~lastResult.ok

C10_ActionSuccess ==
    \A k \in 1..Len(actLog) :
        LET e == actLog[k] IN
        /\ e.resolved = ResolveActorPath(NMain, e.actor)
        /\ Len(e.results) = Len(e.resolved)
        /\ e.ok <=> (e.resolved # <<>> /\ \A i \in 1..Len(e.results) : e.results[i])

\* one attempt with an action that resolved to no actor, and an action that
\* resolved to two actors of which one failed: both actions failed
C10_Witness ==
    /\ \E k \in 1..Len(actLog) : actLog[k].resolved = <<>> /\ ~actLog[k].ok
    /\ \E k \in 1..Len(actLog) :
        /\ actLog[k].resolved = <<NW1, NW2>>
        /\ actLog[k].results = <<TRUE, FALSE>>
        /\ ~actLog[k].ok


(* ---------------------------------------------------------------------- *)
(* Properties of the path resolver                                         *)
(* ---------------------------------------------------------------------- *)

\* a resolveActorPath call has been made
Resolved == lastOrigin # NoName

\* the names of a list, in its order, that were registered at the last call
\* and match the pattern
RegisteredMatches(names, pat) ==
    LET Hit(n) == n \in lastRegistered /\ GlobMatch(pat, n) IN SelectSeq(names, Hit)

\* the children listed by the parent of the last call's origin
ParentsChildren ==
    IF parentName[lastOrigin] = NoName THEN <<>> ELSE childNames[parentName[lastOrigin]]

\* C11: "." and "this" resolve to exactly the origin; ".." resolves to exactly
\* the actor registered under the origin's parent name, and to the empty list
\* when the origin has no parent; "." from c1 is c1, ".." from c1 is p
C11_SelfAndParent ==
    Resolved =>
        /\ lastPath \in {PathDot, PathThis} => lastResolved = <<lastOrigin>>
        /\ lastPath = PathDotDot =>
            /\ parentName[lastOrigin] = NoName => lastResolved = <<>>
            /\ parentName[lastOrigin] \in lastRegistered =>
                    lastResolved = <<parentName[lastOrigin]>>
            /\ lastResolved # <<>> =>
                    lastResolved = <<parentName[lastOrigin]>>
            /\ (lastOrigin = NC1 /\ NP \in lastRegistered) => lastResolved = <<NP>>

\* ".." from the parent "p", which has no parent itself, gave the empty list
C11_Witness ==
    /\ lastOrigin = NP
    /\ lastPath = PathDotDot
    /\ lastResolved = <<>>
    /\ NP \in lastRegistered

\* C12 as stated: "./<pattern>" is matched against the origin's children, and
\* "../<pattern>" as well as a name without prefix against the children of the
\* origin's parent
C12_BareNameAmongSiblings ==
    Resolved =>
        /\ StartsWith(lastPath, <<".", "/">>) =>
              lastResolved = RegisteredMatches(childNames[lastOrigin], Drop(lastPath, 2))
        /\ StartsWith(lastPath, <<".", ".", "/">>) =>
              lastResolved = RegisteredMatches(ParentsChildren, Drop(lastPath, 3))
        /\ lastPath \in {NC1, NP, NW2} =>
              lastResolved = RegisteredMatches(ParentsChildren, lastPath)

\* C12: "./<pattern>" is matched against the origin's children and "../<pattern>"
\* against the children of the origin's parent, the origin included when it
\* matches; a name without prefix resolves to the actor registered under that
\* name, wherever it stands in the hierarchy; "../*" from c1 is c1, c2 and
\* "./w*" from p with the children w1, w2, other is w1, w2
C12_ChildrenAndSiblings ==
    Resolved =>
        /\ StartsWith(lastPath, <<".", "/">>) =>
              lastResolved = RegisteredMatches(childNames[lastOrigin], Drop(lastPath, 2))
        /\ StartsWith(lastPath, <<".", ".", "/">>) =>
              lastResolved = RegisteredMatches(ParentsChildren, Drop(lastPath, 3))
        /\ lastPath \in {NC1, NP, NW2} =>
              lastResolved = IF lastPath \in lastRegistered THEN <<lastPath>> ELSE <<>>
        /\ (lastOrigin = NC1 /\ lastPath = PathAllSiblings
                /\ childNames[NP] = <<NC1, NC2>> /\ {NC1, NC2} \subseteq lastRegistered) =>
              lastResolved = <<NC1, NC2>>
        /\ (lastOrigin = NP /\ lastPath = PathChildrenW
                /\ {NW1, NW2, NOther} \subseteq lastRegistered) =>
              lastResolved = <<NW1, NW2>>

\* the name "c1" resolved from "p", which has no parent and lists "c1" as its
\* child: the registered actor "c1" is returned
C12_Witness ==
    /\ lastOrigin = NP
    /\ lastPath = NC1
    /\ parentName[NP] = NoName
    /\ lastResolved = <<NC1>>

\* C13: a resolveActorPath call leaves the registered names and every actor's
\* parent and children as they were, returns registered actors only, and
\* returns the empty list for a path that matches nothing
C13_ResolveChangesNothing ==
    /\ [][(lastOrigin' # lastOrigin \/ lastPath' # lastPath \/ lastResolved' # lastResolved)
            => (iiActors' = iiActors /\ parentName' = parentName /\ childNames' = childNames)]_vars
    /\ [](Range(lastResolved) \subseteq lastRegistered)
    /\ []((Resolved /\ lastPath = PathNobody) => lastResolved = <<>>)

\* a call with a path that names no child returned the empty list
C13_Witness ==
    /\ Resolved
    /\ lastPath = PathNobody
    /\ lastResolved = <<>>
    /\ iiActors = lastRegistered

(* ---------------------------------------------------------------------- *)
(* Properties of the overlay merge                                         *)
(* ---------------------------------------------------------------------- *)

\* a build has been made
Built == builds > 0

\* the overlay has one patch
OnePatch == Len(conf.patches) = 1

\* the steps of the first patch
ThePatch == conf.patches[1].steps

\* the patch step at k is new for the base workflow
IsNew(k) == ThePatch[k].vertexName \notin VertexNames(base0)

\* the new patch steps that have no anchor before them
Orphans == {k \in 1..Len(ThePatch) : IsNew(k) /\ \A j \in 1..(k - 1) : IsNew(j)}

PatchStepFor(v) == ThePatch[IndexOf(ThePatch, v)]

\* the vertexNames of the base the patch deletes
Deleted == {v \in VertexNames(base0) \cap VertexNames(ThePatch) : PatchStepFor(v).delete}

\* the base steps the patch does not delete, in the order of the base
Kept == LET Stays(b) == b.vertexName \notin Deleted IN SelectSeq(base0, Stays)

\* a base step after the merge: untouched when the patch does not name it,
\* else with the fields of the patch step laid over its own
Merged(b) ==
    IF b.vertexName \notin VertexNames(ThePatch) THEN b
    ELSE LET q == PatchStepFor(b.vertexName) IN
         [vertexName |-> b.vertexName,
          states |-> IF q.hasStates THEN q.states ELSE b.states,
          args |-> [k \in DOMAIN b.args \cup DOMAIN q.args |->
                       IF k \in DOMAIN q.args THEN q.args[k] ELSE b.args[k]]]

\* the steps of the merge result that stem from the base
FromBase == LET Old(st) == st.vertexName \in VertexNames(base0) IN SelectSeq(rawSteps, Old)

C16_BaseUntouched ==
    /\ [](Deref(baseRefs) = base0)
    /\ [](Range(outRefs) \cap Range(baseRefs) = {})
    /\ [][baseRefs' = baseRefs]_vars

\* the caller has overwritten a step of the returned workflow
C16_Witness ==
    /\ Built
    /\ outcome.status = "ok"
    /\ \E j \in 1..Len(outRefs) :
        /\ heap[outRefs[j]].states = Overwritten
        /\ heap[outRefs[j]].vertexName \in VertexNames(base0)
    /\ Deref(baseRefs) = base0

RECURSIVE Fill(_, _)
Fill(parts, vs) ==
    IF parts = <<>> THEN <<>>
    ELSE LET h == Head(parts)
             txt == IF h.kind = "lit" THEN h.text
                    ELSE IF h.name \in DOMAIN vs THEN vs[h.name]
                    ELSE h.default
         IN txt \o Fill(Tail(parts), vs)

\* the parts a string of the workflows is written from
PartsOf(text) == CHOOSE t \in Templates : Render(t) = text

\* C18: in the workflow a build returns every string argument is the merged
\* one with each ${name} replaced by vars[name] and each ${name:-default} by
\* vars[name] when name is in vars and by default when it is not; the other
\* fields are those of the merge: "${x}" with x = "5" is "5", "${y:-30000}"
\* without y is "30000"
C18_Substitution ==
    (Built /\ outcome.status = "ok") =>
        /\ Len(builtSteps) = Len(rawSteps)
        /\ \A i \in 1..Len(rawSteps) :
            /\ builtSteps[i].vertexName = rawSteps[i].vertexName
            /\ builtSteps[i].states = rawSteps[i].states
            /\ DOMAIN builtSteps[i].args = DOMAIN rawSteps[i].args
            /\ \A k \in DOMAIN rawSteps[i].args :
                /\ \E t \in Templates : Render(t) = rawSteps[i].args[k]
                /\ builtSteps[i].args[k] = Fill(PartsOf(rawSteps[i].args[k]), conf.vars)
                /\ (rawSteps[i].args[k] = TxtX /\ conf.vars[VarX] = Str5) =>
                        builtSteps[i].args[k] = Str5
                /\ (rawSteps[i].args[k] = TxtYOr30000 /\ VarY \notin DOMAIN conf.vars) =>
                        builtSteps[i].args[k] = Str30000

\* "${y:-30000}" without y became "30000", "${x}" with x = "5" became "5", and
\* "${y:-prod}-${x}" became "prod-5"
C18_Witness ==
    /\ Built
    /\ outcome.status = "ok"
    /\ VarY \notin DOMAIN conf.vars
    /\ conf.vars[VarX] = Str5
    /\ \E i \in 1..Len(rawSteps) :
        rawSteps[i].args = ("timeout" :> Txt10) @@ ("env" :> TxtX)
            /\ builtSteps[i].args = ("timeout" :> Txt10) @@ ("env" :> Str5)
    /\ \E i \in 1..Len(rawSteps) :
        rawSteps[i].args = ("target" :> TxtYOr30000)
            /\ builtSteps[i].args = ("target" :> Str30000)
    /\ \E i \in 1..Len(rawSteps) :
        rawSteps[i].args = ("tag" :> TxtYOrProdDashX)
            /\ builtSteps[i].args = ("tag" :> StrProd \o <<"-">> \o Str5)

(* ---------------------------------------------------------------------- *)
(* Properties of the actor's lifecycle                                     *)
(* ---------------------------------------------------------------------- *)

\* the step is a clearPendingMessages() call
ClearStep == Len(cleared') = Len(cleared) + 1

\* C19: clearPendingMessages() removes exactly the messages that wait in the
\* queue and returns their number; the message being processed stays in
\* flight, the actor stays as alive as it was and its loop goes on, and the
\* messages sent afterwards are taken from the queue as usual; a removed
\* message is never executed
C19_ClearPending ==
    /\ [][ClearStep =>
            /\ queue' = <<>>
            /\ discarded' = discarded \cup Range(queue)
            /\ cleared'[Len(cleared')].count = Len(queue)
            /\ cleared'[Len(cleared')].ids = Range(queue)
            /\ inflight' = inflight
            /\ alive' = alive
            /\ workerUp' = workerUp
            /\ value' = value]_vars
    /\ [](\A i \in 1..Len(cleared) :
            /\ cleared[i].count = Cardinality(cleared[i].ids)
            /\ cleared[i].ids \cap cleared[i].running = {}
            /\ cleared[i].ids \cap (Range(started) \cup Range(execLog)) = {}
            /\ \A id \in cleared[i].running : id \in DOMAIN inflight \/ id \in Range(execLog))
    /\ []((cleared # <<>> /\ alive /\ queue # <<>> /\ DOMAIN inflight = {})
            => ENABLED StartQueued)

\* a call that removed a waiting message while another was being processed:
\* the removed one never started, the one in flight completed, and the actor
\* is as alive as before
C19_Witness ==
    /\ alive
    /\ workerUp
    /\ \E i \in 1..Len(cleared) :
        /\ cleared[i].count >= 1
        /\ cleared[i].ids \cap Range(started) = {}
        /\ \E id \in cleared[i].running : id \in Range(execLog) /\ fut[id] = "done"

\* C20: the actor is alive when it is created, and once it is not alive no
\* step (a message sent in any of the four ways, clearPendingMessages, close,
\* terminate, the worker's own steps) makes it alive again
C20_AliveMonotonic == (alive = TRUE) /\ [][alive' => alive]_vars

\* a message sent to the closed actor, which is still not alive
C20_Witness ==
    /\ ~alive
    /\ \E id \in Ids : id \in Range(queue)
    /\ cleared # <<>>
    /\ ~poolsUp

(* ---------------------------------------------------------------------- *)
(* Properties of the ActorSystem                                           *)
(* ---------------------------------------------------------------------- *)

\* the step is a call of the kind `op`, or such a step of terminate()
SysStep(op) == Len(sysLog') = Len(sysLog) + 1 /\ sysLog'[Len(sysLog')].op = op

\* what that step logged
SysLast == sysLog'[Len(sysLog')]

\* no name is registered twice
UniqueKeys == \A e1 \in sysActors : \A e2 \in sysActors : e1[1] = e2[1] => e1 = e2

\* C21: actorOf on a name that is registered fails: it returns no ref, no ref
\* is constructed and the registry with the registered ref stays as it was;
\* on a free name it registers a new ref; so no name ever has two refs
C21_UniqueNames ==
    /\ []UniqueKeys
    /\ [][SysStep("actorOf") =>
            IF Registered(sysActors, SysLast.name)
            THEN /\ ~SysLast.ok
                 /\ SysLast.ref = Absent
                 /\ sysActors' = sysActors
                 /\ actorRefs' = actorRefs
            ELSE /\ SysLast.ok
                 /\ SysLast.ref = Len(actorRefs) + 1
                 /\ sysActors' = sysActors \cup {<<SysLast.name, SysLast.ref>>}]_vars

\* an actorOf that failed on a name whose actor is still registered and alive
C21_Witness ==
    \E i \in 1..Len(sysLog) :
        /\ sysLog[i].op = "actorOf"
        /\ ~sysLog[i].ok
        /\ Registered(sysActors, sysLog[i].name)
        /\ actorRefs[RefOf(sysActors, sysLog[i].name)].alive

\* a caller's removeActor took the ref out of the registry
TakenAway(h) ==
    \E k \in 1..Len(sysLog) :
        sysLog[k].op = "removeActor" /\ sysLog[k].ok /\ sysLog[k].ref = h

\* a ref that was registered when terminate() began is unregistered, and closed
\* unless another caller removed it from the registry before terminate() got to it
TerminatedRef(h) ==
    /\ <<actorRefs[h].name, h>> \notin sysActors
    /\ actorRefs[h].alive => TakenAway(h)

Unregisters(k, name) ==
    /\ sysLog[k].name = name
    /\ \/ sysLog[k].op = "removeActor" /\ sysLog[k].ok
       \/ sysLog[k].op = "close"

\* C23: under every interleaving of the callers the registry is a map from
\* names to refs of that name; every call answers from the registry as it is
\* when the call takes effect; of two actorOf calls for one name, with no
\* removal between them, at most one succeeds, and the first does when the
\* name is free; a getActor that finds nothing after a hasActor that
\* returned true means the actor was removed or closed in between
C23_ConcurrentRegistry ==
    /\ [](/\ UniqueKeys
          /\ \A e \in sysActors : e[2] \in 1..Len(actorRefs) /\ actorRefs[e[2]].name = e[1])
    /\ [][/\ SysStep("actorOf") => (SysLast.ok <=> ~Registered(sysActors, SysLast.name))
          /\ SysStep("hasActor") => (SysLast.ok <=> Registered(sysActors, SysLast.name))
          /\ SysStep("getActor") => SysLast.ref = RefOf(sysActors, SysLast.name)
          /\ SysStep("listActorNames") => SysLast.names = NamesOf(sysActors)
          /\ SysStep("removeActor") =>
                \A e \in sysActors : e \in sysActors' <=> e[1] # SysLast.name]_vars
    /\ [](\A i \in 1..Len(sysLog) : \A j \in (i + 1)..Len(sysLog) :
            /\ (/\ sysLog[i].op = "actorOf" /\ sysLog[j].op = "actorOf"
                /\ sysLog[i].name = sysLog[j].name
                /\ sysLog[i].ok /\ sysLog[j].ok)
                  => \E k \in (i + 1)..(j - 1) : Unregisters(k, sysLog[i].name)
            /\ (/\ sysLog[i].op = "hasActor" /\ sysLog[i].ok
                /\ sysLog[j].op = "getActor" /\ sysLog[j].name = sysLog[i].name
                /\ sysLog[j].ref = Absent)
                  => \E k \in (i + 1)..(j - 1) : Unregisters(k, sysLog[i].name))

\* hasActor returned true, another caller's removeActor or close took effect,
\* and the getActor that followed found nothing
C23_Witness ==
    \E i \in 1..Len(sysLog) :
        /\ i + 2 <= Len(sysLog)
        /\ sysLog[i].op = "hasActor" /\ sysLog[i].ok
        /\ Unregisters(i + 1, sysLog[i].name)
        /\ sysLog[i + 2].op = "getActor"
        /\ sysLog[i + 2].name = sysLog[i].name
        /\ sysLog[i + 2].ref = Absent

(* ---------------------------------------------------------------------- *)
(* Further properties of the interpreter                                   *)
(* ---------------------------------------------------------------------- *)

\* what the caller of runUntilEnd holds: the two fields of the ActionResult
Reported == [ok |-> lastResult.ok, message |-> lastResult.why]

Scheduled == {i \in Ids : issued[i].op \in TaskOps}

\* C25: every invocation of a scheduled task, of whichever kind and Scheduler,
\* is an ask that goes through the actor's queue and never runs as an immediate
\* call; while it is being executed no other queued message of the actor is,
\* be it another scheduled invocation or a client's
C25_ScheduledViaQueue ==
    /\ \A i \in Scheduled :
        /\ issued[i].kind = "ask"
        /\ IsQueued(i)
        /\ i \notin nowPending
        /\ ~overlap[i]
    /\ \A i \in DOMAIN inflight : \A j \in DOMAIN inflight :
          (i \in Scheduled \/ j \in Scheduled) => i = j
    /\ \A i \in Scheduled : i \in Range(execLog) => i \in Range(started)

\* a client's message was executed, an invocation of one Scheduler's task is
\* being executed and an invocation of the other Scheduler's task waits
C25_Witness ==
    /\ \E k \in Range(execLog) : issued[k].op = "slowSetValue100"
    /\ \E i \in DOMAIN inflight : \E j \in Range(queue) :
        /\ i \in Scheduled /\ j \in Scheduled
        /\ TaskScheduler(issued[i].op) # TaskScheduler(issued[j].op)

(* ---------------------------------------------------------------------- *)
(* Properties of the state patterns                                        *)
(* ---------------------------------------------------------------------- *)

\* the pattern is the operator followed by a number and the state is a number
\* that stands in that relation to it
Satisfies(op, pattern, state) ==
    /\ StartsWith(pattern, op)
    /\ IsNumber(Drop(pattern, Len(op)))
    /\ IsNumber(state)
    /\ LET n == NumberOf(state)
           k == NumberOf(Drop(pattern, Len(op)))
       IN \/ op = <<">", "=">> /\ n >= k
          \/ op = <<">">> /\ n > k
          \/ op = <<"<", "=">> /\ n <= k
          \/ op = <<"<">> /\ n < k
          \/ op = <<"=", "=">> /\ n = k

\* the matcher was asked about this pattern and state and answered `answer`
Answered(pattern, state, answer) ==
    (mPattern = pattern /\ mState = state /\ mResult # "none") => mResult = answer

Pooled == {i \in Ids : issued[i].mode = "pool"}

\* C27: an operation given with a pool never passes through the actor's worker:
\* it is not queued, taken or executed by it; the worker goes on taking the
\* queued messages in the order they were sent, one at a time, and is free to
\* take the next one while an offloaded operation is still running
C27_OffloadedOutsideWorker ==
    /\ \A i \in Pooled : i \notin Range(queue) \cup Range(started) \cup DOMAIN inflight
    /\ started \o queue = LiveQueued
    /\ Len(ExecQueued) <= Len(started)
    /\ ExecQueued = SubSeq(started, 1, Len(ExecQueued))
    /\ Cardinality(DOMAIN inflight) <= 1
    /\ \A i \in Pooled : i \in onPool <=> fut[i] = "pending"
    /\ (onPool # {} /\ workerUp /\ queue # <<>> /\ DOMAIN inflight = {}) => ENABLED StartQueued

\* an offloaded operation is still running on the pool, a message sent after it
\* has been processed by the worker and a further one is being executed
C27_Witness ==
    \E i \in onPool :
        /\ \E q \in DOMAIN inflight : q > i
        /\ \E r \in Range(execLog) : IsQueued(r) /\ r > i /\ fut[r] = "done"

\* the Counter after the bodies of `log` ran one after another
RECURSIVE ValueAlong(_)
ValueAlong(log) ==
    IF log = <<>> THEN InitialValue
    ELSE Effect(issued[log[Len(log)]].op, ValueAlong(SubSeq(log, 1, Len(log) - 1))).value

\* the calls made with tellNow / askNow
Immediates == {i \in Ids : issued[i].mode = "now"}

\* C28: an immediate call is never held back by the queue or by the message the
\* worker is processing: it is not queued, and its body can run whenever it is
\* pending; the Counter holds what the bodies leave when applied in the order
\* in which they happened to run, whatever the order of the calls; for a queued
\* setValue(10) and a tellNow increment the outcome is 10 when the increment
\* ran first and 11 when it ran second
C28_NoOrderWithImmediate ==
    /\ \A i \in Immediates : i \notin Range(queue) \cup Range(started) \cup DOMAIN inflight
    /\ nowPending # {} => ENABLED (\E id \in nowPending : RunNow(id))
    /\ value = ValueAlong(execLog)
    /\ \A q \in Ids : \A n \in Immediates :
          (/\ Len(issued) = 2
           /\ IsQueued(q) /\ issued[q].op = "setValue10" /\ issued[n].op = "increment"
           /\ fut[q] = "done" /\ fut[n] = "done")
              => /\ Pos(execLog, n) < Pos(execLog, q) => value = TenValue
                 /\ Pos(execLog, q) < Pos(execLog, n) => value = TenValue + 1

\* tell setValue(10), then two tellNow increments: one increment ran before the
\* queued write and was overwritten, the other ran after it
C28_Witness ==
    /\ Len(issued) = 3
    /\ IsQueued(1) /\ issued[1].op = "setValue10"
    /\ issued[2].kind = "tellNow" /\ issued[3].kind = "tellNow"
    /\ execLog = <<2, 1, 3>>
    /\ saw[2] = 0 /\ saw[3] = 1
    /\ value = TenValue + 1

(* ---------------------------------------------------------------------- *)
(* Properties of the actions of a step                                     *)
(* ---------------------------------------------------------------------- *)

\* the number of entries of actLog, from position pos on, that step k of the
\* last attempt accounts for: all its actions when it succeeded, those up to
\* its first failed one otherwise (0: there are none)
ExecutedOf(k, pos) ==
    LET acts == table[k].actions
        Failed(j) == pos + j - 1 <= Len(actLog) /\ ~actLog[pos + j - 1].ok
    IN IF trace[k] = "ok" THEN Len(acts)
       ELSE IF \E j \in 1..Len(acts) : Failed(j)
       THEN CHOOSE j \in 1..Len(acts) : Failed(j) /\ \A i \in 1..(j - 1) : ~Failed(i)
       ELSE 0

\* actLog from position pos on is what the steps k, k+1, ... of the last
\* attempt executed: for every matching step its actions in definition order,
\* all of them successful but the last one of a failed step
RECURSIVE InDefinitionOrder(_, _)
InDefinitionOrder(k, pos) ==
    IF k > Len(trace) THEN pos = Len(actLog) + 1
    ELSE IF trace[k] = "skip" THEN InDefinitionOrder(k + 1, pos)
    ELSE LET acts == table[k].actions
             n == ExecutedOf(k, pos)
         IN /\ n >= 1
            /\ pos + n - 1 <= Len(actLog)
            /\ \A j \in 1..n :
                /\ actLog[pos + j - 1].actor = acts[j].actor
                /\ actLog[pos + j - 1].method = acts[j].method
                /\ actLog[pos + j - 1].ok <=> (j < n \/ trace[k] = "ok")
            /\ InDefinitionOrder(k + 1, pos + n)

\* C29: the actions executed by a transition attempt are, step by step, the
\* actions of its matching steps in definition order; a step that failed
\* executed its actions up to the first failing one and none after it, and
\* the attempt went on to the next step of the table
C29_ActionsInOrder ==
    Attempted =>
        /\ InDefinitionOrder(1, 1)
        /\ \A k \in 1..Len(trace) : (trace[k] = "fail" /\ k < Len(table)) => Len(trace) > k

\* the guard of the first step returned false: its second action was not
\* executed, the second step was tried and taken
C29_Witness ==
    /\ trace = <<"fail", "ok">>
    /\ table[1].actions = <<Act(PathW1, "check"), Act(PathW2, "mark")>>
    /\ ~flags[NW2]
    /\ Len(actLog) = 1 + Len(table[2].actions)
    /\ ~actLog[1].ok
    /\ actLog[2].method = table[2].actions[1].method

(* ---------------------------------------------------------------------- *)
(* Properties of the actor-name patterns                                   *)
(* ---------------------------------------------------------------------- *)

\* the positions of "*" in a pattern
Stars(pat) == {i \in 1..Len(pat) : pat[i] = "*"}

\* the name has the characters of `part` at its positions from..(from + Len(part) - 1)
HasAt(name, from, part) ==
    /\ from >= 1
    /\ from + Len(part) - 1 <= Len(name)
    /\ \A i \in 1..Len(part) : name[from + i - 1] = part[i]

\* the pattern is the name, or a bare "*", or a text followed by its only "*"
\* that the name starts with, or its only "*" followed by a text that the
\* name ends with
NameMatches(pat, name) ==
    \/ pat = name
    \/ pat = <<"*">>
    \/ /\ Len(pat) > 1
       /\ Stars(pat) = {Len(pat)}
       /\ HasAt(name, 1, SubSeq(pat, 1, Len(pat) - 1))
    \/ /\ Len(pat) > 1
       /\ Stars(pat) = {1}
       /\ HasAt(name, Len(name) - Len(pat) + 2, Tail(pat))

\* the names of a list, in its order, that were registered at the last call
\* and that the pattern matches
Selected(names, pat) ==
    LET Hit(n) == n \in lastRegistered /\ NameMatches(pat, n) IN SelectSeq(names, Hit)

\* C30: the pattern of "./<pattern>" and "../<pattern>" selects a name that
\* is equal to it, or that starts with the text before its single trailing
\* "*", or that ends with the text after its single leading "*", and a bare
\* "*" selects every name; "./worker*" gives exactly the children whose names
\* start with "worker", "../*-handler" exactly the siblings whose names end
\* with "-handler"
C30_NamePatterns ==
    Resolved =>
        /\ StartsWith(lastPath, <<".", "/">>) =>
              lastResolved = Selected(childNames[lastOrigin], Drop(lastPath, 2))
        /\ StartsWith(lastPath, <<".", ".", "/">>) =>
              lastResolved = Selected(ParentsChildren, Drop(lastPath, 3))
        /\ (lastPath = PathWorkers /\ lastOrigin = NP /\ NWorker1 \in DOMAIN parentName) =>
              \A n \in DOMAIN parentName :
                  (\E i \in 1..Len(lastResolved) : lastResolved[i] = n)
                      <=> (n \in {NWorker1, NWorker} /\ n \in lastRegistered)
        /\ (lastPath = PathHandlers /\ lastOrigin = NWorker1) =>
              \A n \in DOMAIN parentName :
                  (\E i \in 1..Len(lastResolved) : lastResolved[i] = n)
                      <=> (n \in {NEventHandler, NErrorHandler} /\ n \in lastRegistered)

\* "../*-handler" resolved from "worker-1" while all its siblings were
\* registered: the two handlers, in the order of the parent's children
C30_Witness ==
    /\ lastOrigin = NWorker1
    /\ lastPath = PathHandlers
    /\ {NWorker1, NWorker, NEventHandler, NErrorHandler} \subseteq lastRegistered
    /\ lastResolved = <<NEventHandler, NErrorHandler>>

(* ---------------------------------------------------------------------- *)
(* Properties of the call action                                           *)
(* ---------------------------------------------------------------------- *)

\* the name is among the children listed by the caller
ChildOfCaller(n) == \E i \in 1..Len(childNames[NMain]) : childNames[NMain][i] = n

\* C31: whenever no call is in progress the child interpreter is neither
\* registered nor among the caller's children, and after a call has returned,
\* with a success or with a failure, the registered actors and the caller's
\* children are those found when the call began
C31_ChildDiscarded ==
    child.pc = "none" =>
        /\ NChild \notin iiActors
        /\ NChild \notin DOMAIN parentName
        /\ ~ChildOfCaller(NChild)
        /\ lastCall.returned =>
            /\ iiActors = lastCall.registered
            /\ childNames[NMain] = lastCall.children

\* a call of the sub-workflow that never ends has returned a failure; its
\* child was registered while it ran and is gone
C31_Witness ==
    /\ lastCall.returned
    /\ lastCall.file = "sub-loop.yaml"
    /\ ~lastCall.ok
    /\ NChild \in lastCall.during
    /\ child.pc = "none"
    /\ iiActors = {NMain, NW1, NW2}

\* the step in which a call action returns
CallReturns == child.pc = "done" /\ child'.pc = "none"

\* C32: the call action succeeds exactly if the child's run reached "end";
\* when the run failed, by a failed attempt or at the iteration bound, the
\* call action is a failed action of the caller's step: currentState stays,
\* the step counts as failed and the caller's scan stands at its next step
C32_CallPropagatesFailure ==
    [][CallReturns =>
          LET ended == child.ok /\ child.why = "end" /\ child.state = SEnd
              last == actLog'[Len(actLog')]
          IN /\ Len(actLog') = Len(actLog) + 1
             /\ last.method = "call"
             /\ last.ok <=> ended
             /\ child.why \in {"attempt", "limit"} => ~last.ok
             /\ ~ended =>
                  /\ currentState' = currentState
                  /\ currentStepIndex' = currentStepIndex
                  /\ trace' = Append(trace, "fail")
                  /\ scanAt' = [step |-> scanAt.step + 1, action |-> 1]
                  /\ flags' = flags]_vars

\* the call of the first step failed at the iteration bound, the action
\* behind it was not executed, and the second step was taken
C32_Witness ==
    /\ ~Scanning
    /\ trace = <<"fail", "ok">>
    /\ table[1].actions[1] = CallAct("sub-loop.yaml")
    /\ Len(actLog) = 2
    /\ actLog[1].method = "call" /\ ~actLog[1].ok
    /\ actLog[2].ok
    /\ attemptFrom = S0
    /\ currentState = SEnd

(* ---------------------------------------------------------------------- *)
(* Properties of removeActor on a running actor                            *)
(* ---------------------------------------------------------------------- *)

\* the step of system.removeActor("counter")
RemoveStep == ~removedAt.done /\ removedAt'.done

\* C33: removeActor only unregisters the actor: in its step the name leaves
\* the registry while the handle stays as alive as it was, its worker, its
\* queue and the message being processed are untouched and nothing is
\* discarded; the name stays unregistered afterwards, and the handle stops
\* being alive only in a step of close() or terminate(), which empties the queue
C33_RemoveDoesNotClose ==
    /\ [][RemoveStep =>
            /\ ActorName \notin registry'
            /\ alive' = alive
            /\ workerUp' = workerUp
            /\ queue' = queue
            /\ inflight' = inflight
            /\ discarded' = discarded]_vars
    /\ [][(alive /\ ~alive') => (~RemoveStep /\ queue' = <<>>)]_vars
    /\ [](removedAt.done => ActorName \notin registry)

\* the counter was removed from the system while alive with an operation in
\* its queue; it is still alive, and that operation has been executed since
C33_Witness ==
    /\ removedAt.done
    /\ removedAt.alive
    /\ alive
    /\ ActorName \notin registry
    /\ \E id \in removedAt.queued : \E k \in 1..Len(execLog) : execLog[k] = id

(* ---------------------------------------------------------------------- *)
(* Properties of a scheduled task that throws                              *)
(* ---------------------------------------------------------------------- *)

\* the invocations of a task that ended with an exception
FailedBy(t) == {i \in FiredBy(t) : fut[i] = "failed"}

\* C34: a periodic task stays scheduled whatever became of its invocations:
\* unless it was cancelled it can be invoked again, also after an invocation
\* that threw; the exception fails the future of that invocation only, never
\* one of another task or of a client; and the actor's worker goes on taking
\* messages from its queue
C34_FailedTaskStaysScheduled ==
    /\ \A t \in RiskyRun :
          (tasks[t] = "scheduled" /\ Calls < MaxOps) => ENABLED Fire(t)
    /\ \A i \in Ids : fut[i] = "failed" => issued[i].op = RiskyTask
    /\ workerUp
    /\ (queue # <<>> /\ inflight = <<>>) => ENABLED StartQueued

\* the risky task threw, was invoked again and threw again, and the
\* health check that was queued behind it has run
C34_Witness ==
    /\ tasks[RiskyTask] = "scheduled"
    /\ Cardinality(FailedBy(RiskyTask)) = 2
    /\ \E i \in FailedBy(RiskyTask) : \E k \in FiredBy("health-check") :
          i < k /\ fut[k] = "done"

(* ---------------------------------------------------------------------- *)
(* Properties of the name transformations                                  *)
(* ---------------------------------------------------------------------- *)

\* the build has applied the name transformation
Renamed == rnOut # {}

\* the workflow of the output that stands for the workflow w of the overlay
IsImage(o, w) == o.name = rnConf.prefix \o w.name \o rnConf.suffix

\* C35: the output holds one workflow for every workflow of the overlay,
\* named prefix + name + suffix; every call / runWorkflow reference of the
\* output designates a workflow of the output, namely the one that stands for
\* the workflow the reference designated before; with prod- and -v2,
\* deploy-workflow in deploy.yaml becomes prod-deploy-workflow-v2 in
\* prod-deploy-v2.yaml
C35_RenameConsistent ==
    Renamed =>
        /\ Cardinality(rnOut) = Cardinality(rnIn)
        /\ \A w \in rnIn : \E o \in rnOut :
            /\ IsImage(o, w)
            /\ Len(o.refs) = Len(w.refs)
            /\ \A i \in 1..Len(w.refs) :
                /\ o.refs[i].method = w.refs[i].method
                /\ \E tw \in rnIn : \E to \in rnOut :
                    /\ tw.file = w.refs[i].file
                    /\ to.file = o.refs[i].file
                    /\ IsImage(to, tw)
        /\ \A o \in rnOut : \A i \in 1..Len(o.refs) : \E t \in rnOut : t.file = o.refs[i].file
        /\ (rnConf = [prefix |-> PrefixProd, suffix |-> SuffixV2]
                /\ \E w \in rnIn : w.file = FileDeploy) =>
              \E o \in rnOut :
                /\ o.name = <<"p", "r", "o", "d", "-", "d", "e", "p", "l", "o", "y", "-", "w", "o", "r", "k", "f", "l", "o", "w", "-", "v", "2">>
                /\ o.file = <<"p", "r", "o", "d", "-", "d", "e", "p", "l", "o", "y", "-", "v", "2", ".", "y", "a", "m", "l">>

\* with prod- and -v2, the deploy workflow called the sub workflow and ran
\* itself again: its references are now prod-sub-v2.yaml and prod-deploy-v2.yaml
C35_Witness ==
    /\ rnConf = [prefix |-> PrefixProd, suffix |-> SuffixV2]
    /\ \E w \in rnIn : w.file = FileDeploy /\ Len(w.refs) = 2
    /\ \E o \in rnOut :
        /\ o.file = <<"p", "r", "o", "d", "-", "d", "e", "p", "l", "o", "y", "-", "v", "2", ".", "y", "a", "m", "l">>
        /\ \E i \in 1..Len(o.refs) :
               o.refs[i] = [method |-> "call", file |-> <<"p", "r", "o", "d", "-", "s", "u", "b", "-", "v", "2", ".", "y", "a", "m", "l">>]
        /\ \E i \in 1..Len(o.refs) :
               o.refs[i] = [method |-> "runWorkflow", file |-> <<"p", "r", "o", "d", "-", "d", "e", "p", "l", "o", "y", "-", "v", "2", ".", "y", "a", "m", "l">>]

(* ---------------------------------------------------------------------- *)
(* Properties of an abandoned step                                         *)
(* ---------------------------------------------------------------------- *)

\* what one executed action did to the flags of the actors it was sent to
EffectOf(e, fl) ==
    [w \in DOMAIN fl |->
        IF \E i \in 1..Len(e.resolved) : e.resolved[i] = w
        THEN CASE e.method = "mark"  -> TRUE
               [] e.method = "clear" -> FALSE
               [] OTHER              -> fl[w]
        ELSE fl[w]]

\* the flags after the actions of a log were executed in order, none undone
RECURSIVE Replay(_, _)
Replay(log, fl) ==
    IF log = <<>> THEN fl ELSE Replay(Tail(log), EffectOf(Head(log), fl))

\* a step of the interpreter, as opposed to a change of a worker's POJO
\* from outside
InterpreterStep ==
    <<currentState, currentStepIndex, pc, maxIter, attempts, lastResult, attemptFrom,
      trace, actLog, reached>>' #
    <<currentState, currentStepIndex, pc, maxIter, attempts, lastResult, attemptFrom,
      trace, actLog, reached>>

\* C36: after a transition attempt the actors hold what all the executed
\* actions left, those of the abandoned steps included: nothing is rolled
\* back; an abandoned step leaves currentState alone, so an attempt without
\* a successful step ends in the state it began in
C36_NoRollback ==
    [][InterpreterStep =>
          /\ flags' = Replay(actLog', flags)
          /\ (\A k \in 1..Len(trace') : trace'[k] # "ok") => currentState' = currentState]_vars

\* the first step marked w1 and was abandoned when w2 failed its check; the
\* second step found w1 marked, which its own check needed, and was taken
C36_Witness ==
    /\ trace = <<"fail", "ok">>
    /\ table[1].actions = <<Act(PathW1, "mark"), Act(PathAllChildren, "check")>>
    /\ table[2].actions = <<Act(PathW1, "check"), Act(PathW2, "mark")>>
    /\ Len(actLog) = 4
    /\ actLog[1].ok
    /\ actLog[2].results = <<TRUE, FALSE>>
    /\ actLog[3].ok
    /\ attemptFrom = S0
    /\ currentState = S1
    /\ flags[NW1]

(* ---------------------------------------------------------------------- *)
(* Properties of messages sent to a closed actor                           *)
(* ---------------------------------------------------------------------- *)

\* the operations sent with tell or ask that wait in the queue
Waiting == Range(queue)

\* the step ran the body of operation id
Ran(id) == execLog' = Append(execLog, id)

\* C37: what waits in the queue of a closed actor, that is what was sent
\* to it with tell or ask after close(), is never taken by the worker and
\* never run; a change of the Counter after close() comes from no such
\* operation
C37_ClosedActorRunsNothingQueued ==
    /\ [][~alive =>
            \A id \in Waiting :
                /\ id \notin Range(started')
                /\ id \notin DOMAIN inflight'
                /\ id \notin Range(execLog')]_vars
    /\ [][(~alive /\ value' # value) =>
            \E id \in DOMAIN issued :
                /\ Ran(id)
                /\ id \notin Waiting
                /\ id \notin discarded
                /\ issued[id].mode = "queued" => id \in Range(started)]_vars

\* an increment was told to the closed actor and waits in its queue; the
\* Counter holds what the operations before close() left
C37_Witness ==
    /\ ~alive
    /\ ~workerUp
    /\ queue # <<>>
    /\ \A i \in 1..Len(queue) : issued[queue[i]].op = "increment"
    /\ execLog # <<>>
    /\ DOMAIN inflight = {}
    /\ value = InitialValue + 1

(* ---------------------------------------------------------------------- *)
(* Properties of the open actor under fair scheduling                      *)
(* ---------------------------------------------------------------------- *)

\* how often id occurs in the sequence s
Occurs(s, id) == Cardinality({i \in 1..Len(s) : s[i] = id})

\* operation id was sent with tell or ask
Enqueued(id) == id \in DOMAIN issued /\ issued[id].mode = "queued"

\* the body of operation id has run once and its future holds the outcome
ExecutedOnce(id) ==
    /\ Occurs(execLog, id) = 1
    /\ fut[id] = Effect(issued[id].op, value).status
    /\ fut[id] \in {"done", "failed"}

\* operation id is in exactly one place: waiting, being processed, or done
InOnePlace(id) ==
    /\ Occurs(queue, id) + Occurs(execLog, id)
         + (IF id \in DOMAIN inflight THEN 1 ELSE 0) = 1
    /\ Occurs(started, id) = (IF id \in Range(queue) THEN 0 ELSE 1)
    /\ fut[id] = "pending" <=> Occurs(execLog, id) = 0

\* C38: on an actor that is never closed and never cleared, every
\* operation sent with tell or ask is eventually run, once, and its future
\* is then completed with the result or the failure; at no time is a queued
\* operation lost or run twice
C38_EveryQueuedOperationRuns ==
    /\ \A id \in 1..MaxOps : Enqueued(id) ~> ExecutedOnce(id)
    /\ [](\A id \in DOMAIN issued : issued[id].mode = "queued" => InOnePlace(id))

\* three operations were sent with tell and ask, the second one threw; all
\* three have run, in the order sent, and their futures are completed
C38_Witness ==
    /\ alive
    /\ cleared = <<>>
    /\ Len(issued) = 3
    /\ \A id \in 1..3 : issued[id].mode = "queued"
    /\ issued[2].op = "throwing"
    /\ issued[3].op = "getValue"
    /\ execLog = <<1, 2, 3>>
    /\ fut[2] = "failed"
    /\ fut[1] = "done" /\ fut[3] = "done"
    /\ queue = <<>> /\ DOMAIN inflight = {}

(* ---------------------------------------------------------------------- *)
(* Properties of the vertexNames of a merged workflow                      *)
(* ---------------------------------------------------------------------- *)

\* no two steps have the same vertexName
UniqueNames(steps) == Cardinality(VertexNames(steps)) = Len(steps)

\* the base and every patch of the overlay have unique vertexNames
UniqueInputs ==
    /\ UniqueNames(base0)
    /\ \A i \in 1..Len(conf.patches) : UniqueNames(conf.patches[i].steps)

\* C39: when the vertexNames are unique within the base and within each
\* patch, a merge that succeeds yields a workflow without two steps of the
\* same vertexName, whatever the patches modify, insert and delete and
\* however many of them are applied in order
C39_VertexNamesStayUnique ==
    (UniqueInputs /\ outcome.status = "ok") =>
        /\ UniqueNames(rawSteps)
        /\ UniqueNames(builtSteps)
        /\ VertexNames(builtSteps) = VertexNames(rawSteps)

\* patch-a.yaml inserted validate behind setup, patch-b.yaml then named
\* validate, which modified the inserted step, and inserted backup behind it
C39_Witness ==
    /\ outcome.status = "ok"
    /\ Len(conf.patches) = 2
    /\ "validate" \in VertexNames(conf.patches[1].steps)
    /\ "validate" \in VertexNames(conf.patches[2].steps)
    /\ "validate" \notin VertexNames(base0)
    /\ Len(base0) = 3
    /\ [i \in 1..Len(rawSteps) |-> rawSteps[i].vertexName]
         = <<"setup", "validate", "backup", "deploy", "verify">>

(* ---------------------------------------------------------------------- *)
(* Properties of several new steps behind one anchor                       *)
(* ---------------------------------------------------------------------- *)

\* the patch step k is an anchor that stays: a step of the base, not deleted
IsAnchor(k) == ~IsNew(k) /\ ~ThePatch[k].delete

\* the number of new steps the patch lists directly behind its step k
RECURSIVE RunBehind(_)
RunBehind(k) ==
    IF k + 1 <= Len(ThePatch) /\ IsNew(k + 1) THEN 1 + RunBehind(k + 1) ELSE 0

\* the vertexName of the base step that follows the step named v ("": none)
FollowerInBase(v) ==
    LET at == IndexOf(base0, v) IN
    IF at < Len(base0) THEN base0[at + 1].vertexName ELSE ""

====
